---- MODULE Spec2Model ----
(***************************************************************************)
(* Model of the nocycle library: OrientedGraph (a packed adjacency store   *)
(* of ternary digits) and DirectedAcyclicGraph (a data OrientedGraph plus  *)
(* the m_canreach transitive-closure sidestructure).                       *)
(*                                                                         *)
(* A graph is its m_buffer, the sequence of ternary digits.  Digit pos of  *)
(* the C++ buffer (0-based) is element pos+1 of the sequence.              *)
(*                                                                         *)
(* A failing assert()/nocycle_assert() halts the operation where it fires: *)
(* the writes made before it stay, `failed' names the assertion and no     *)
(* further call is made (the process has aborted).                         *)
(***************************************************************************)
EXTENDS Integers, Sequences, FiniteSets, TLC

\* initial_size handed to the constructor: ids 0 .. MaxVertices-1
MaxVertices == 3

\* number of calls made on the graph in one run
MaxOps == 8

\* width in bits of PackedTypeForNstate (CHAR_BIT * sizeof(unsigned) in the
\* program, scaled down here)
WordBits == 8

\* largest length an NstateArray is resized to
MaxLength == 6

\* bound of the recursion depth of CleanUpReachability (one level per vertex
\* when data is acyclic); recursion beyond it is reported as non-termination
CleanFuel == MaxVertices + 1

VARIABLES
    mode,      \* the cache mode the library was built with
    data,      \* m_buffer of the DirectedAcyclicGraph's OrientedGraph base
    canreach,  \* m_buffer of m_canreach
    failed,    \* "none", or the assertion that stopped the program
    bdag,      \* edge set of the reference DAG run side by side
    nops,      \* number of calls made so far
    written,   \* tristate property of the reference DAG's edges: the value
               \* last written to each edge by SetTristateForConnection
    nv,        \* an NstateArray<3>: [m_buffer, m_max]
    vec,       \* the std::vector<unsigned> v the self test runs beside nv
    beyond,    \* what the memory right behind m_table of the PowerTable holds
    dropped,   \* a position whose nonzero digit a shrinking resize of nv cut
               \* off and that was not written since, or -1
    og,        \* m_buffer of an OrientedGraph used on its own
    bog,       \* the BoostOrientedGraph run beside og: [exists, E]
    at,        \* where each of two threads stands in its CanReach call
    call,      \* the <<fromVertex, toVertex>> each thread called CanReach with
    answer,    \* what each thread's CanReach returned, or "none"
    canreachBefore, \* m_buffer of m_canreach when the first thread called
    overlapped \* a thread took a step while the other was inside CanReach

dagVars == <<mode, data, canreach, failed, bdag, nops, written>>

nstateVars == <<nv, vec, beyond, dropped>>

ogVars == <<og, bog>>

threadVars == <<at, call, answer, canreachBefore, overlapped>>

vars == <<dagVars, nstateVars, ogVars, threadVars>>

\* enum VertexExistenceTristate
doesNotExist == 0
existsAsTypeOne == 1
existsAsTypeTwo == 2

\* enum VertexConnectionTristate
notConnected == 0
lowPointsToHigh == 1
highPointsToLow == 2

\* enum VertexType
vertexTypeOne == 0
vertexTypeTwo == 1

\* #define canreachClean / canreachMayHaveFalsePositives
canreachClean == vertexTypeOne
canreachMayHaveFalsePositives == vertexTypeTwo

\* enum ExtraTristate
isReachableWithoutEdge == 0
notReachableWithoutEdge == 1
thirdStateNotSureWhatToDoWithIt == 2

\* cache modes: "plain" is CACHE_REACHABILITY alone, "rwl" adds
\* CACHE_REACH_WITHOUT_LINK
Modes == {"plain", "rwl"}

Min(a, b) == IF a < b THEN a ELSE b
Max(a, b) == IF a > b THEN a ELSE b

RECURSIVE SortedSeq(_)
\* iteration order of a std::set<VertexID>: ascending
SortedSeq(S) ==
    IF S = {} THEN <<>>
    ELSE LET m == CHOOSE x \in S : \A y \in S : x <= y
         IN <<m>> \o SortedSeq(S \ {m})

(***************************************************************************)
(* NstateArray<3>, seen as its digits                                      *)
(***************************************************************************)
Digit(buf, pos) == buf[pos + 1]

SetDigit(buf, pos, t) == [buf EXCEPT ![pos + 1] = t]

\* fault: growth fills with ones
ResizeFillingWithOnes(buf, max) ==
    [i \in 1..max |-> IF i <= Len(buf) THEN buf[i] ELSE 1]

ResizeWithZeros(buf, max) ==
    [i \in 1..max |-> IF i <= Len(buf) THEN buf[i] ELSE 0]

(***************************************************************************)
(* NstateArray<3> as it is stored: digits packed into words                *)
(***************************************************************************)
\* template parameter of NstateArray<3> m_buffer
radix == 3

RECURSIVE Pow(_, _)
Pow(b, n) == IF n = 0 THEN 1 ELSE b * Pow(b, n - 1)

\* arithmetic of PackedTypeForNstate (unsigned) wraps at the word width
WordModulus == Pow(2, WordBits)

Word(x) == x % WordModulus

\* nstatesInUnsigned = floor(log(2)/log(radix) * CHAR_BIT * sizeof(unsigned)),
\* the number of entries the constructor of PowerTable pushes
NstatesInPackedType ==
    CHOOSE n \in 0..WordBits :
        Pow(radix, n) <= WordModulus /\ Pow(radix, n + 1) > WordModulus

RECURSIVE PowerTableValue(_)
\* the value pushed at an index: value = value * radix, starting at 1
PowerTableValue(index) ==
    IF index = 0 THEN 1 ELSE Word(PowerTableValue(index - 1) * radix)

\* PowerTable::m_table
m_table == [index \in 0..(NstatesInPackedType - 1) |-> PowerTableValue(index)]

\* values the read behind the end of m_table may give
BeyondTable == {0, WordModulus - 1}

\* PowerTable::PowerForDigit: m_table[digit] is not bounds-checked; behind
\* the table it gives what the memory there holds
PowerForDigit(digit) ==
    IF digit \in DOMAIN m_table THEN m_table[digit] ELSE beyond

GetDigitInPackedValue(packed, digit) ==
    LET value == IF digit < NstatesInPackedType - 1
                 THEN packed % PowerForDigit(digit + 1)
                 ELSE packed
    IN  value \div PowerForDigit(digit)

\* fault: the upper part is cut at the digit itself, so the old digit stays
\* in it
SetDigitKeepingOldDigit(packed, digit, t) ==
    LET powForDigit == PowerForDigit(digit)
        upperPart == IF digit < NstatesInPackedType - 1
                     THEN Word((packed \div powForDigit) * powForDigit)
                     ELSE 0
        setPart == Word(t * powForDigit)
        lowerPart == IF digit > 0 THEN packed % powForDigit ELSE 0
    IN  Word(upperPart + setPart + lowerPart)

SetDigitInPackedValue(packed, digit, t) ==
    LET powForDigitPlusOne == PowerForDigit(digit + 1)
        powForDigit == PowerForDigit(digit)
        upperPart == IF digit < NstatesInPackedType - 1
                     THEN Word((packed \div powForDigitPlusOne)
                               * powForDigitPlusOne)
                     ELSE 0
        setPart == Word(t * powForDigit)
        lowerPart == IF digit > 0 THEN packed % powForDigit ELSE 0
    IN  Word(upperPart + setPart + lowerPart)

\* NstateArray::operator[] const
NstateArrayGet(na, pos) ==
    GetDigitInPackedValue(na.m_buffer[(pos \div NstatesInPackedType) + 1],
                          pos % NstatesInPackedType)

\* NstateArray::operator[] and reference::do_assign
NstateArraySet(na, pos, t) ==
    [na EXCEPT !.m_buffer[(pos \div NstatesInPackedType) + 1] =
        SetDigitInPackedValue(@, pos % NstatesInPackedType, t)]

RECURSIVE EraseDigits(_, _, _)
\* the for loops of ResizeWithZeros: digits eraseDigit .. limit-1 are set to 0
EraseDigits(packed, eraseDigit, limit) ==
    IF eraseDigit < limit
    THEN EraseDigits(SetDigitInPackedValue(packed, eraseDigit, 0),
                     eraseDigit + 1, limit)
    ELSE packed

\* m_buffer.resize(newBufferSize, 0)
VectorResize(buffer, newBufferSize) ==
    [i \in 1..newBufferSize |-> IF i <= Len(buffer) THEN buffer[i] ELSE 0]

\* fault: the buffer is resized and the digits of the last word that fell
\* out of use are left as they are
ResizeWithoutErase(na, max) ==
    [m_buffer |-> VectorResize(na.m_buffer,
                      max \div NstatesInPackedType
                      + (IF max % NstatesInPackedType = 0 THEN 0 ELSE 1)),
     m_max |-> max]

\* NstateArray::ResizeWithZeros
PackedResizeWithZeros(na, max) ==
    LET oldBufferSize == Len(na.m_buffer)
        newBufferSize == max \div NstatesInPackedType
                         + (IF max % NstatesInPackedType = 0 THEN 0 ELSE 1)
        oldMaxDigitNeeded ==
            IF na.m_max % NstatesInPackedType = 0 /\ na.m_max > 0
            THEN NstatesInPackedType
            ELSE na.m_max % NstatesInPackedType
        newMaxDigitNeeded ==
            IF max % NstatesInPackedType = 0 /\ max > 0
            THEN NstatesInPackedType
            ELSE max % NstatesInPackedType
        resized == VectorResize(na.m_buffer, newBufferSize)
    IN  IF newBufferSize = oldBufferSize
           /\ newMaxDigitNeeded < oldMaxDigitNeeded
        THEN [m_buffer |-> [resized EXCEPT ![newBufferSize] =
                              EraseDigits(@, newMaxDigitNeeded,
                                          oldMaxDigitNeeded)],
              m_max |-> max]
        ELSE IF newBufferSize < oldBufferSize /\ newMaxDigitNeeded > 0
        THEN [m_buffer |-> [resized EXCEPT ![newBufferSize] =
                              EraseDigits(@, newMaxDigitNeeded,
                                          NstatesInPackedType)],
              m_max |-> max]
        ELSE [m_buffer |-> resized, m_max |-> max]

\* NstateArray(initial_size)
NstateArray(initial_size) ==
    PackedResizeWithZeros([m_buffer |-> <<>>, m_max |-> 0], initial_size)

\* the digits of an NstateArray, read one by one
DigitsOf(na) == [i \in 1..na.m_max |-> NstateArrayGet(na, i - 1)]

(***************************************************************************)
(* OrientedGraph                                                           *)
(***************************************************************************)
TristateIndexForExistence(vertexE) == (vertexE * (vertexE + 1)) \div 2

TristateIndexForConnection(vertexS, vertexL) ==
    TristateIndexForExistence(vertexL) + (vertexL - vertexS)

\* (sqrt(1 + 8 pos) - 1) / 2 truncated to an integer, for every length a
\* buffer of the model can have
TruncatedRoot ==
    [pos \in 0..TristateIndexForExistence(MaxVertices + 1) |->
        CHOOSE v \in 0..pos :
            /\ TristateIndexForExistence(v) <= pos
            /\ TristateIndexForExistence(v + 1) > pos]

VertexFromExistenceTristateIndex(pos) == TruncatedRoot[pos]

IsExistenceTristateIndex(pos) ==
    TristateIndexForExistence(TruncatedRoot[pos]) = pos

\* the vertices the function stores, and whether its assertions let it return
VerticesFromConnectionTristateIndex(pos) ==
    LET vertexL == TruncatedRoot[pos]
        tife == TristateIndexForExistence(vertexL)
        vertexS == (tife + vertexL) - pos
    IN  [vertexS |-> vertexS,
         vertexL |-> vertexL,
         returns |-> /\ tife # pos
                     /\ tife + vertexL > pos
                     /\ vertexL > vertexS
                     /\ TristateIndexForConnection(vertexS, vertexL) = pos]

GetFirstInvalidVertexID(buf) ==
    IF Len(buf) = 0 THEN 0 ELSE VertexFromExistenceTristateIndex(Len(buf))

SetCapacityForMaxValidVertexID(buf, vertexL) ==
    ResizeWithZeros(buf, TristateIndexForExistence(vertexL + 1))

\* fault: room for vertexL itself as well
SetCapacityOneTooMany(buf, vertexL) ==
    ResizeWithZeros(buf, TristateIndexForExistence(vertexL + 1))

SetCapacitySoVertexIsFirstInvalidID(buf, vertexL) ==
    IF vertexL = 0 THEN ResizeWithZeros(buf, 0)
    ELSE ResizeWithZeros(buf, TristateIndexForExistence(vertexL))

\* the capacity in digits that SetCapacitySoVertexIsFirstInvalidID asks for
CapacityForFirstInvalidID(vertexL) ==
    IF vertexL = 0 THEN 0 ELSE TristateIndexForExistence(vertexL)

\* the packed m_buffer that holds the digits buf, each written through
\* operator[]
RECURSIVE WriteDigits(_, _, _)
WriteDigits(na, buf, pos) ==
    IF pos >= Len(buf) THEN na
    ELSE WriteDigits(NstateArraySet(na, pos, buf[pos + 1]), buf, pos + 1)

PackedOf(buf) == WriteDigits(NstateArray(Len(buf)), buf, 0)

\* OrientedGraph(initial_size)
OrientedGraph(initial_size) ==
    SetCapacitySoVertexIsFirstInvalidID(<<>>, initial_size)

VertexExists(buf, vertexE) ==
    Digit(buf, TristateIndexForExistence(vertexE)) # doesNotExist

GetVertexType(buf, vertexE) ==
    IF Digit(buf, TristateIndexForExistence(vertexE)) = existsAsTypeOne
    THEN vertexTypeOne ELSE vertexTypeTwo

CreateVertexEx(buf, vertexE, vertexType) ==
    SetDigit(buf, TristateIndexForExistence(vertexE),
             IF vertexType = vertexTypeOne THEN existsAsTypeOne
             ELSE existsAsTypeTwo)

SetVertexType(buf, vertexE, vertexType) ==
    SetDigit(buf, TristateIndexForExistence(vertexE),
             IF vertexType = vertexTypeOne THEN existsAsTypeOne
             ELSE existsAsTypeTwo)

\* the connection cell of the unordered pair {a, b}
ConnectionCell(buf, a, b) ==
    Digit(buf, TristateIndexForConnection(Min(a, b), Max(a, b)))

\* fault: the direction is written and read without regard to which end of
\* the pair has the higher id
DirectionIgnoringOrder(fromVertex, toVertex) == lowPointsToHigh

\* the value of the connection cell that encodes the edge from -> to
DirectionCell(fromVertex, toVertex) ==
    IF toVertex > fromVertex THEN lowPointsToHigh ELSE highPointsToLow

\* HasLinkage: its return value, *forwardEdge and *reverseEdge
HasLinkage(buf, fromVertex, toVertex) ==
    ConnectionCell(buf, fromVertex, toVertex) # notConnected

EdgeExists(buf, fromVertex, toVertex) ==
    ConnectionCell(buf, fromVertex, toVertex)
        = DirectionCell(fromVertex, toVertex)

ReverseEdgeExists(buf, fromVertex, toVertex) ==
    ConnectionCell(buf, fromVertex, toVertex)
        = DirectionCell(toVertex, fromVertex)

\* the connection scan of GetVertexInfoMaybeDestroy: every id below
\* first_invalid is classified, whether or not it exists
OutgoingEdgesForVertex(buf, vertexE) ==
    {vertexT \in (0..(GetFirstInvalidVertexID(buf) - 1)) \ {vertexE} :
        EdgeExists(buf, vertexE, vertexT)}

IncomingEdgesForVertex(buf, vertexE) ==
    {vertexT \in (0..(GetFirstInvalidVertexID(buf) - 1)) \ {vertexE} :
        EdgeExists(buf, vertexT, vertexE)}

\* fault: reports the edge as added and stores nothing
SetEdgeWithoutWrite(buf, fromVertex, toVertex) ==
    [buf |-> buf, ret |-> TRUE, err |-> "none"]

\* fault: a conflicting reverse edge is overwritten with the new direction
SetEdgeFlippingDirection(buf, fromVertex, toVertex) ==
    LET tifc == TristateIndexForConnection(Min(fromVertex, toVertex),
                                           Max(fromVertex, toVertex))
    IN  IF Digit(buf, tifc) = DirectionCell(fromVertex, toVertex)
        THEN [buf |-> buf, ret |-> FALSE, err |-> "none"]
        ELSE [buf |-> SetDigit(buf, tifc, DirectionCell(fromVertex, toVertex)),
              ret |-> TRUE, err |-> "none"]

\* OrientedGraph::SetEdge: [buf, ret, err]; a conflicting reverse edge is
\* assert(false)
OGSetEdge(buf, fromVertex, toVertex) ==
    LET tifc == TristateIndexForConnection(Min(fromVertex, toVertex),
                                           Max(fromVertex, toVertex))
        cell == Digit(buf, tifc)
    IN  IF cell = DirectionCell(fromVertex, toVertex)
        THEN [buf |-> buf, ret |-> FALSE, err |-> "none"]
        ELSE IF cell = notConnected
        THEN [buf |-> SetDigit(buf, tifc, DirectionCell(fromVertex, toVertex)),
              ret |-> TRUE, err |-> "none"]
        ELSE [buf |-> buf, ret |-> FALSE, err |-> "SetEdge: reverse edge"]

\* fault: the cell is cleared whichever direction it encodes
ClearEdgeEitherDirection(buf, fromVertex, toVertex) ==
    LET tifc == TristateIndexForConnection(Min(fromVertex, toVertex),
                                           Max(fromVertex, toVertex))
    IN  IF Digit(buf, tifc) # notConnected
        THEN [buf |-> SetDigit(buf, tifc, notConnected), ret |-> TRUE]
        ELSE [buf |-> buf, ret |-> FALSE]

\* OrientedGraph::ClearEdge: [buf, ret]
OGClearEdge(buf, fromVertex, toVertex) ==
    LET tifc == TristateIndexForConnection(Min(fromVertex, toVertex),
                                           Max(fromVertex, toVertex))
    IN  IF Digit(buf, tifc) = DirectionCell(fromVertex, toVertex)
        THEN [buf |-> SetDigit(buf, tifc, notConnected), ret |-> TRUE]
        ELSE [buf |-> buf, ret |-> FALSE]

RECURSIVE FirstUnusedWalk(_, _)
\* the while loop of the compaction: walk down over trailing holes
FirstUnusedWalk(buf, vertexFirstUnused) ==
    IF vertexFirstUnused > 0
       /\ Digit(buf, TristateIndexForExistence(vertexFirstUnused - 1))
            = doesNotExist
    THEN FirstUnusedWalk(buf, vertexFirstUnused - 1)
    ELSE vertexFirstUnused

\* fault: the compaction shrinks to the top id without walking down over
\* the holes below it
CompactWithoutWalk(buf) ==
    LET vertexT == GetFirstInvalidVertexID(buf) - 1
    IN  IF Digit(buf, TristateIndexForExistence(vertexT)) = doesNotExist
        THEN SetCapacitySoVertexIsFirstInvalidID(buf, vertexT)
        ELSE buf

\* the compaction of GetVertexInfoMaybeDestroy
CompactAfterDestroy(buf) ==
    LET vertexT == GetFirstInvalidVertexID(buf) - 1
    IN  IF Digit(buf, TristateIndexForExistence(vertexT)) = doesNotExist
        THEN SetCapacitySoVertexIsFirstInvalidID(buf,
                 FirstUnusedWalk(buf, vertexT))
        ELSE buf

\* the connection scan of GetVertexInfoMaybeDestroy with destroyIfExists:
\* it runs only when the caller asked for a count or an edge set
ScanAndDisconnect(buf, vertexE, countsRequested) ==
    IF countsRequested
    THEN LET cells ==
                 {TristateIndexForConnection(Min(vertexT, vertexE),
                                             Max(vertexT, vertexE)) :
                     vertexT \in (0..(GetFirstInvalidVertexID(buf) - 1))
                                    \ {vertexE}}
         IN  [i \in 1..Len(buf) |->
                 IF (i - 1) \in cells THEN notConnected ELSE buf[i]]
    ELSE buf

\* OrientedGraph::DestroyVertexEx(vertex, vertexType, compactIfDestroy,
\* incomingEdgeCount, outgoingEdgeCount) on an existing vertex;
\* countsRequested: one of the two count pointers is not NULL
OGDestroyVertexEx(buf, vertex, compactIfDestroy, countsRequested) ==
    LET scanned == ScanAndDisconnect(buf, vertex, countsRequested)
        gone == SetDigit(scanned, TristateIndexForExistence(vertex),
                         doesNotExist)
    IN  IF compactIfDestroy THEN CompactAfterDestroy(gone) ELSE gone

(***************************************************************************)
(* DirectedAcyclicGraph.  A state of the object is a record                *)
(*   [d |-> data buffer, c |-> m_canreach buffer, err |-> assertion].      *)
(***************************************************************************)
Fail(g, what) == IF g.err = "none" THEN [g EXCEPT !.err = what] ELSE g

\* a while loop over an iterator: Body is applied to the elements in order,
\* and stops where an assertion has fired
ForEach(Body(_, _), g, seq) ==
    LET RECURSIVE Loop(_, _)
        Loop(h, rest) ==
            IF rest = <<>> \/ h.err # "none" THEN h
            ELSE Loop(Body(h, Head(rest)), Tail(rest))
    IN  Loop(g, seq)

\* the id is within the buffer and its existence cell is set
Live(buf, v) == v < GetFirstInvalidVertexID(buf) /\ VertexExists(buf, v)

\* the three asserts at the head of HasLinkage
HasLinkageAsserts(buf, fromVertex, toVertex) ==
    /\ fromVertex # toVertex
    /\ Live(buf, fromVertex)
    /\ Live(buf, toVertex)

GetTristateForConnection(g, fromVertex, toVertex) ==
    IF EdgeExists(g.c, fromVertex, toVertex) THEN 1
    ELSE IF ReverseEdgeExists(g.c, fromVertex, toVertex) THEN 2
    ELSE 0

SetTristateForConnection(g, fromVertex, toVertex, tristate) ==
    IF g.err # "none" THEN g
    ELSE IF ~(HasLinkageAsserts(g.d, fromVertex, toVertex)
              /\ EdgeExists(g.d, fromVertex, toVertex))
    THEN Fail(g, "SetTristateForConnection: EdgeExists")
    ELSE IF ~HasLinkageAsserts(g.c, fromVertex, toVertex)
    THEN Fail(g, "HasLinkage: VertexExists")
    ELSE [g EXCEPT !.c =
            SetDigit(@, TristateIndexForConnection(Min(fromVertex, toVertex),
                                                   Max(fromVertex, toVertex)),
                     CASE tristate = 0 -> notConnected
                       [] tristate = 1 -> DirectionCell(fromVertex, toVertex)
                       [] tristate = 2 -> DirectionCell(toVertex, fromVertex))]

ClearReachEdge(g, fromVertex, toVertex) ==
    IF g.err # "none" THEN g
    ELSE IF ~HasLinkageAsserts(g.d, fromVertex, toVertex)
    THEN Fail(g, "HasLinkage: VertexExists")
    ELSE IF HasLinkage(g.d, fromVertex, toVertex)
    THEN Fail(g, "ClearReachEdge: !HasLinkage")
    ELSE IF ~HasLinkageAsserts(g.c, fromVertex, toVertex)
    THEN Fail(g, "ClearEdge: exists")
    ELSE [g EXCEPT !.c = OGClearEdge(@, fromVertex, toVertex).buf]

RemoveReachEdge(g, fromVertex, toVertex) ==
    LET cleared == ClearReachEdge(g, fromVertex, toVertex)
    IN  IF cleared.err = "none" /\ cleared.c = g.c
        THEN Fail(g, "RemoveReachEdge: ClearReachEdge")
        ELSE cleared

\* fault: the reach edge is written to the data graph
SetReachEdgeInData(g, fromVertex, toVertex) ==
    IF g.err # "none" THEN g
    ELSE [g EXCEPT !.d = SetDigit(@, TristateIndexForConnection(
                                         Min(fromVertex, toVertex),
                                         Max(fromVertex, toVertex)),
                                  DirectionCell(fromVertex, toVertex))]

SetReachEdge(g, fromVertex, toVertex) ==
    IF g.err # "none" THEN g
    ELSE IF ~HasLinkageAsserts(g.d, fromVertex, toVertex)
    THEN Fail(g, "HasLinkage: VertexExists")
    ELSE IF HasLinkage(g.d, fromVertex, toVertex)
    THEN Fail(g, "SetReachEdge: !HasLinkage")
    ELSE IF ~HasLinkageAsserts(g.c, fromVertex, toVertex)
    THEN Fail(g, "SetEdge: VertexExists")
    ELSE LET s == OGSetEdge(g.c, fromVertex, toVertex)
         IN  IF s.err # "none" THEN Fail(g, s.err)
             ELSE [g EXCEPT !.c = s.buf]

\* the asserts reached while IncomingReachForVertexIncludingSelf and
\* OutgoingReachForVertexIncludingSelf collect their set
ReachAsserts(g, vertex) ==
    /\ Live(g.d, vertex)
    /\ Live(g.c, vertex)
    /\ \A other \in IncomingEdgesForVertex(g.c, vertex)
                      \cup OutgoingEdgesForVertex(g.c, vertex) :
            Live(g.d, other)

\* fault: the vertices with a physical edge to the vertex are left out
IncomingReachWithoutPhysicalEdges(g, vertex) ==
    {incomingReachVertex \in IncomingEdgesForVertex(g.c, vertex) :
        ~HasLinkage(g.d, vertex, incomingReachVertex)}
    \cup {vertex}

IncomingReachForVertexIncludingSelf(g, vertex) ==
    IncomingEdgesForVertex(g.d, vertex)
    \cup {incomingReachVertex \in IncomingEdgesForVertex(g.c, vertex) :
             ~HasLinkage(g.d, vertex, incomingReachVertex)}
    \cup {vertex}

OutgoingReachForVertexIncludingSelf(g, vertex) ==
    OutgoingEdgesForVertex(g.d, vertex)
    \cup {outgoingReachVertex \in OutgoingEdgesForVertex(g.c, vertex) :
             ~HasLinkage(g.d, outgoingReachVertex, vertex)}
    \cup {vertex}

\* fault: the cells of pairs with a physical edge are dropped as well
ClearRowWithNoise(g, fromVertex) ==
    ForEach(LAMBDA h, outgoingReachAndNoiseVertex :
                [h EXCEPT !.c =
                    SetDigit(@, TristateIndexForConnection(
                                    Min(fromVertex, outgoingReachAndNoiseVertex),
                                    Max(fromVertex, outgoingReachAndNoiseVertex)),
                             notConnected)],
            g, SortedSeq(OutgoingEdgesForVertex(g.c, fromVertex)))

\* first loop of CleanUpReachability: drop every closure cell of the row
ClearRow(g, fromVertex) ==
    IF ~Live(g.c, fromVertex)
    THEN Fail(g, "OutgoingEdgesForVertex: exists")
    ELSE ForEach(LAMBDA h, outgoingReachAndNoiseVertex :
                    IF ~HasLinkageAsserts(h.d, fromVertex,
                                          outgoingReachAndNoiseVertex)
                    THEN Fail(h, "HasLinkage: VertexExists")
                    ELSE IF HasLinkage(h.d, fromVertex,
                                       outgoingReachAndNoiseVertex)
                    THEN h
                    ELSE RemoveReachEdge(h, fromVertex,
                                         outgoingReachAndNoiseVertex),
                 g, SortedSeq(OutgoingEdgesForVertex(g.c, fromVertex)))

\* inner loop of CleanUpReachability: what the child outgoingVertex reaches
\* is reached by fromVertex
AdoptReachOfChild(g, fromVertex, outgoingVertex, outgoingForOutgoing) ==
    ForEach(LAMBDA h, w :
               IF outgoingVertex = w THEN h
               ELSE IF ~HasLinkageAsserts(h.d, fromVertex, w)
               THEN Fail(h, "HasLinkage: VertexExists")
               ELSE IF EdgeExists(h.d, fromVertex, w) THEN h
               ELSE IF ~HasLinkageAsserts(h.c, w, fromVertex)
               THEN Fail(h, "HasLinkage: VertexExists")
               ELSE IF EdgeExists(h.c, w, fromVertex)
               THEN IF GetVertexType(h.c, w) # canreachMayHaveFalsePositives
                    THEN Fail(h, "CleanUpReachability: stale cell of a clean vertex")
                    ELSE SetReachEdge(RemoveReachEdge(h, w, fromVertex),
                                      fromVertex, w)
               ELSE SetReachEdge(h, fromVertex, w),
            g, SortedSeq(outgoingForOutgoing))

\* last loop of CleanUpReachability (CACHE_REACH_WITHOUT_LINK): an edge to a
\* child keeps isReachableWithoutEdge only if another child reaches it
DowngradeTristates(g, fromVertex, mapOfOutgoingReachIncludingSelf) ==
    ForEach(LAMBDA h, linkedVertex :
               IF ~(HasLinkageAsserts(h.d, fromVertex, linkedVertex)
                    /\ EdgeExists(h.d, fromVertex, linkedVertex)
                    /\ HasLinkageAsserts(h.c, fromVertex, linkedVertex))
               THEN Fail(h, "GetTristateForConnection: EdgeExists")
               ELSE IF GetTristateForConnection(h, fromVertex, linkedVertex)
                         = isReachableWithoutEdge
                       /\ ~\E other \in DOMAIN mapOfOutgoingReachIncludingSelf :
                             /\ other # linkedVertex
                             /\ linkedVertex
                                  \in mapOfOutgoingReachIncludingSelf[other]
               THEN SetTristateForConnection(h, fromVertex, linkedVertex,
                                             notReachableWithoutEdge)
               ELSE h,
            g, SortedSeq(DOMAIN mapOfOutgoingReachIncludingSelf))

\* fault: every vertex is marked clean, not only the one whose row was rebuilt
MarkEveryVertexClean(g, fromVertex) ==
    IF g.err # "none" THEN g
    ELSE ForEach(LAMBDA h, x : [h EXCEPT !.c = SetVertexType(@, x, canreachClean)],
                 g, SortedSeq({x \in 0 .. GetFirstInvalidVertexID(g.c) - 1 :
                                VertexExists(g.c, x)}))

\* CleanUpReachability once its loops are done: the vertex is marked clean
MarkClean(g, fromVertex) ==
    IF g.err # "none" THEN g
    ELSE [g EXCEPT !.c = SetVertexType(@, fromVertex, canreachClean)]

\* mapOfOutgoingReachIncludingSelf with the entry of one more child
WithChild(map, outgoingVertex, outgoingForOutgoing) ==
    [x \in DOMAIN map \cup {outgoingVertex} |->
        IF x = outgoingVertex THEN outgoingForOutgoing ELSE map[x]]

RECURSIVE CleanUpRecursingIntoSelf(_, _, _, _, _)
\* fault: the cleaning of a row recurses into the row it was called for
CleanUpRecursingIntoSelf(m, g, fromVertex, toVertex, fuel) ==
    IF g.err # "none" THEN g
    ELSE IF fuel = 0 THEN Fail(g, "CleanUpReachability: recursion does not end")
    ELSE CleanUpRecursingIntoSelf(m, g, fromVertex, toVertex, fuel - 1)

RECURSIVE CleanUpReachability(_, _, _, _, _)
RECURSIVE CleanChildren(_, _, _, _, _, _, _)
RECURSIVE AdoptAndContinue(_, _, _, _, _, _, _)
\* the loop of CleanUpReachability over the physical children, from the
\* point where the child at the head has been cleaned; g is the state the
\* recursive call left
AdoptAndContinue(m, g, fromVertex, toVertex, children, map, fuel) ==
    IF g.err # "none" THEN [g |-> g, map |-> map]
    ELSE IF ~ReachAsserts(g, Head(children))
    THEN [g |-> Fail(g, "HasLinkage: VertexExists"), map |-> map]
    ELSE CleanChildren(m,
             AdoptReachOfChild(g, fromVertex, Head(children),
                 OutgoingReachForVertexIncludingSelf(g, Head(children))),
             fromVertex, toVertex, Tail(children),
             WithChild(map, Head(children),
                 OutgoingReachForVertexIncludingSelf(g, Head(children))),
             fuel)

\* the loop of CleanUpReachability over the physical children; it returns the
\* state and mapOfOutgoingReachIncludingSelf
CleanChildren(m, g, fromVertex, toVertex, children, map, fuel) ==
    IF children = <<>> \/ g.err # "none" THEN [g |-> g, map |-> map]
    ELSE IF ~Live(g.c, Head(children))
    THEN [g |-> Fail(g, "GetVertexType: exists"), map |-> map]
    ELSE AdoptAndContinue(m,
             IF GetVertexType(g.c, Head(children))
                  = canreachMayHaveFalsePositives
             THEN CleanUpReachability(m, g, Head(children), toVertex,
                                      fuel - 1)
             ELSE g,
             fromVertex, toVertex, children, map, fuel)

\* CleanUpReachability after the loop over the children: r is the state and
\* the map that loop returned
DowngradeAndMarkClean(m, r, fromVertex) ==
    MarkClean(IF m = "rwl"
              THEN DowngradeTristates(r.g, fromVertex, r.map)
              ELSE r.g,
              fromVertex)

\* fault: the cleared row is marked clean without being rebuilt
RebuildRowWithoutChildren(m, g, fromVertex, toVertex, fuel) ==
    MarkClean(g, fromVertex)

\* CleanUpReachability after its first loop: g is the state with the row
\* of fromVertex cleared
RebuildRow(m, g, fromVertex, toVertex, fuel) ==
    IF g.err # "none" THEN g
    ELSE IF ~Live(g.d, fromVertex)
    THEN Fail(g, "OutgoingEdgesForVertex: exists")
    ELSE DowngradeAndMarkClean(m,
             CleanChildren(m, g, fromVertex, toVertex,
                 SortedSeq(OutgoingEdgesForVertex(g.d, fromVertex)),
                 [x \in {} |-> {}], fuel),
             fromVertex)

CleanUpReachability(m, g, fromVertex, toVertex, fuel) ==
    IF g.err # "none" THEN g
    ELSE IF fuel = 0 THEN Fail(g, "CleanUpReachability: recursion does not end")
    ELSE RebuildRow(m, ClearRow(g, fromVertex), fromVertex, toVertex, fuel)

\* the return of CanReach after CleanUpReachability
CleanedAnswer(g, fromVertex, toVertex) ==
    [g |-> g,
     ret |-> g.err = "none" /\ EdgeExists(g.c, fromVertex, toVertex)]

\* fault: the row of a canreachMayHaveFalsePositives vertex is cleaned even
\* when the cell asked for is not set
CanReachCleaningEveryDirtyRow(m, g, fromVertex, toVertex) ==
    IF ~HasLinkageAsserts(g.d, fromVertex, toVertex)
    THEN [g |-> Fail(g, "HasLinkage: VertexExists"), ret |-> FALSE]
    ELSE IF EdgeExists(g.d, fromVertex, toVertex) THEN [g |-> g, ret |-> TRUE]
    ELSE IF ReverseEdgeExists(g.d, fromVertex, toVertex)
    THEN [g |-> g, ret |-> FALSE]
    ELSE IF ~HasLinkageAsserts(g.c, fromVertex, toVertex)
    THEN [g |-> Fail(g, "GetVertexType: exists"), ret |-> FALSE]
    ELSE IF GetVertexType(g.c, fromVertex) = canreachClean
    THEN [g |-> g, ret |-> EdgeExists(g.c, fromVertex, toVertex)]
    ELSE CleanedAnswer(
             CleanUpReachability(m, g, fromVertex, toVertex, CleanFuel),
             fromVertex, toVertex)

\* CanReach: [g, ret]
CanReach(m, g, fromVertex, toVertex) ==
    IF ~HasLinkageAsserts(g.d, fromVertex, toVertex)
    THEN [g |-> Fail(g, "HasLinkage: VertexExists"), ret |-> FALSE]
    ELSE IF EdgeExists(g.d, fromVertex, toVertex) THEN [g |-> g, ret |-> TRUE]
    ELSE IF ReverseEdgeExists(g.d, fromVertex, toVertex)
    THEN [g |-> g, ret |-> FALSE]
    ELSE IF ~HasLinkageAsserts(g.c, fromVertex, toVertex)
    THEN [g |-> Fail(g, "GetVertexType: exists"), ret |-> FALSE]
    ELSE IF GetVertexType(g.c, fromVertex) = canreachClean
    THEN [g |-> g, ret |-> EdgeExists(g.c, fromVertex, toVertex)]
    ELSE IF ~EdgeExists(g.c, fromVertex, toVertex)
    THEN [g |-> g, ret |-> FALSE]
    ELSE CleanedAnswer(
             CleanUpReachability(m, g, fromVertex, toVertex, CleanFuel),
             fromVertex, toVertex)

\* fault: no tristate is upgraded
UpgradeNoTristates(g, canreachFromVertex, fromVertex, toVertex, toCanreach, vertexTypeTo) ==
    g

\* the tristate upgrade loop of SetEdge (CACHE_REACH_WITHOUT_LINK) for one
\* vertex of canreachFrom.  SetVertexType is called on the graph itself, the
\* data graph, not on m_canreach.
UpgradeTristates(g, canreachFromVertex, fromVertex, toVertex, toCanreach, vertexTypeTo) ==
    IF ~Live(g.d, canreachFromVertex)
    THEN Fail(g, "OutgoingEdgesForVertex: exists")
    ELSE ForEach(LAMBDA h, outgoingVertex :
                    IF outgoingVertex = toVertex
                       /\ canreachFromVertex = fromVertex
                    THEN h
                    ELSE IF outgoingVertex \notin toCanreach THEN h
                    ELSE LET h1 == SetTristateForConnection(h,
                                       canreachFromVertex, outgoingVertex,
                                       isReachableWithoutEdge)
                         IN  IF h1.err # "none" THEN h1
                             ELSE IF vertexTypeTo = canreachMayHaveFalsePositives
                             THEN [h1 EXCEPT !.d =
                                      SetVertexType(@, canreachFromVertex,
                                          canreachMayHaveFalsePositives)]
                             ELSE h1,
                 g, SortedSeq(OutgoingEdgesForVertex(g.d, canreachFromVertex)))

\* fault: a vertex that gains a closure cell is marked clean whatever the
\* three vertex types are
PropagatePairMarkingClean(g, canreachFromVertex, toCanreachVertex, vertexTypeTo, vertexTypeFrom) ==
    IF canreachFromVertex = toCanreachVertex
    THEN Fail(g, "SetEdge: canreachFromVertex != toCanreachVertex")
    ELSE IF ~HasLinkageAsserts(g.d, canreachFromVertex, toCanreachVertex)
    THEN Fail(g, "HasLinkage: VertexExists")
    ELSE IF EdgeExists(g.d, canreachFromVertex, toCanreachVertex) THEN g
    ELSE IF ~HasLinkageAsserts(g.c, canreachFromVertex, toCanreachVertex)
    THEN Fail(g, "GetVertexType: exists")
    ELSE
      LET vertexTypeToCanreach == GetVertexType(g.c, toCanreachVertex)
          reverseEdge == ReverseEdgeExists(g.d, canreachFromVertex,
                                           toCanreachVertex)
          g1 == IF vertexTypeToCanreach = canreachMayHaveFalsePositives
                THEN ClearReachEdge(g, toCanreachVertex, canreachFromVertex)
                ELSE IF EdgeExists(g.c, toCanreachVertex, canreachFromVertex)
                THEN Fail(g, "SetEdge: !m_canreach.EdgeExists")
                ELSE g
      IN  IF g1.err # "none" THEN g1
          ELSE IF reverseEdge
          THEN IF vertexTypeToCanreach # canreachMayHaveFalsePositives
               THEN Fail(g1, "SetEdge: reverse edge of a clean vertex")
               ELSE g1
          ELSE
            LET vertexTypeCanreachFrom == GetVertexType(g1.c, canreachFromVertex)
                newType == canreachClean
            IN  SetReachEdge([g1 EXCEPT !.c = SetVertexType(@,
                                 canreachFromVertex, newType)],
                             canreachFromVertex, toCanreachVertex)

\* body of the inner propagation loop of SetEdge
PropagatePair(g, canreachFromVertex, toCanreachVertex, vertexTypeTo, vertexTypeFrom) ==
    IF canreachFromVertex = toCanreachVertex
    THEN Fail(g, "SetEdge: canreachFromVertex != toCanreachVertex")
    ELSE IF ~HasLinkageAsserts(g.d, canreachFromVertex, toCanreachVertex)
    THEN Fail(g, "HasLinkage: VertexExists")
    ELSE IF EdgeExists(g.d, canreachFromVertex, toCanreachVertex) THEN g
    ELSE IF ~HasLinkageAsserts(g.c, canreachFromVertex, toCanreachVertex)
    THEN Fail(g, "GetVertexType: exists")
    ELSE
      LET vertexTypeToCanreach == GetVertexType(g.c, toCanreachVertex)
          reverseEdge == ReverseEdgeExists(g.d, canreachFromVertex,
                                           toCanreachVertex)
          g1 == IF vertexTypeToCanreach = canreachMayHaveFalsePositives
                THEN ClearReachEdge(g, toCanreachVertex, canreachFromVertex)
                ELSE IF EdgeExists(g.c, toCanreachVertex, canreachFromVertex)
                THEN Fail(g, "SetEdge: !m_canreach.EdgeExists")
                ELSE g
      IN  IF g1.err # "none" THEN g1
          ELSE IF reverseEdge
          THEN IF vertexTypeToCanreach # canreachMayHaveFalsePositives
               THEN Fail(g1, "SetEdge: reverse edge of a clean vertex")
               ELSE g1
          ELSE
            LET vertexTypeCanreachFrom == GetVertexType(g1.c, canreachFromVertex)
                newType == IF /\ vertexTypeCanreachFrom = canreachClean
                              /\ vertexTypeTo = canreachClean
                              /\ vertexTypeFrom = canreachClean
                           THEN canreachClean
                           ELSE canreachMayHaveFalsePositives
            IN  SetReachEdge([g1 EXCEPT !.c = SetVertexType(@,
                                 canreachFromVertex, newType)],
                             canreachFromVertex, toCanreachVertex)

\* the return of SetEdge after the propagation
Propagated(g) ==
    [g |-> g, ret |-> IF g.err = "none" THEN "true" ELSE "abort"]

\* the propagation loops of SetEdge over canreachFrom and toCanreach
PropagateReach(m, g, fromVertex, toVertex, toCanreach, vertexTypeTo, canreachFrom, vertexTypeFrom) ==
    ForEach(LAMBDA h, canreachFromVertex :
               ForEach(LAMBDA k, toCanreachVertex :
                          PropagatePair(k, canreachFromVertex,
                              toCanreachVertex, vertexTypeTo, vertexTypeFrom),
                       IF m = "rwl"
                       THEN UpgradeTristates(h, canreachFromVertex,
                                fromVertex, toVertex, toCanreach, vertexTypeTo)
                       ELSE h,
                       SortedSeq(toCanreach)),
            g, SortedSeq(canreachFrom))

\* SetEdge from the point where the physical edge and its tristate are set
UpdateReachability(m, g, fromVertex, toVertex) ==
    IF g.err # "none" THEN [g |-> g, ret |-> "abort"]
    ELSE IF ~(ReachAsserts(g, toVertex) /\ ReachAsserts(g, fromVertex))
    THEN [g |-> Fail(g, "HasLinkage: VertexExists"), ret |-> "abort"]
    ELSE Propagated(
             PropagateReach(m, g, fromVertex, toVertex,
                 OutgoingReachForVertexIncludingSelf(g, toVertex),
                 GetVertexType(g.c, toVertex),
                 IncomingReachForVertexIncludingSelf(g, fromVertex),
                 GetVertexType(g.c, fromVertex)))

\* SetEdge from OrientedGraph::SetEdge on: s is what that call returned,
\* reachablePriorToEdge was read before it
InsertEdge(m, g, s, reachablePriorToEdge, fromVertex, toVertex) ==
    IF s.err # "none" THEN [g |-> Fail(g, s.err), ret |-> "abort"]
    ELSE IF ~s.ret THEN [g |-> g, ret |-> "false"]
    ELSE UpdateReachability(m,
             IF m = "rwl"
             THEN SetTristateForConnection([g EXCEPT !.d = s.buf],
                      fromVertex, toVertex,
                      IF reachablePriorToEdge THEN isReachableWithoutEdge
                      ELSE notReachableWithoutEdge)
             ELSE [g EXCEPT !.d = s.buf],
             fromVertex, toVertex)

\* SetEdge after InsertionWouldCauseCycle: cr is what CanReach(toVertex,
\* fromVertex) returned
InsertUnlessCycle(m, cr, fromVertex, toVertex) ==
    IF cr.g.err # "none" THEN [g |-> cr.g, ret |-> "abort"]
    ELSE IF cr.ret THEN [g |-> cr.g, ret |-> "bad_cycle"]
    ELSE InsertEdge(m, cr.g, OGSetEdge(cr.g.d, fromVertex, toVertex),
                    EdgeExists(cr.g.c, fromVertex, toVertex),
                    fromVertex, toVertex)

\* DirectedAcyclicGraph::SetEdge: [g, ret], ret one of "true", "false",
\* "bad_cycle" (the exception) and "abort" (an assertion fired)
SetEdge(m, g, fromVertex, toVertex) ==
    InsertUnlessCycle(m, CanReach(m, g, toVertex, fromVertex),
                      fromVertex, toVertex)

\* the dirtying part of ClearEdge, after the physical edge is gone
DirtyUpstream(g, fromVertex, toVertex) ==
    IF ~ReachAsserts(g, fromVertex) THEN Fail(g, "HasLinkage: VertexExists")
    ELSE
      LET canreachFrom == IncomingReachForVertexIncludingSelf(g, fromVertex)
          g1 == ForEach(LAMBDA h, canreachFromVertex :
                   IF ~Live(h.c, canreachFromVertex)
                   THEN Fail(h, "SetVertexType: VertexExists")
                   ELSE [h EXCEPT !.c = SetVertexType(@, canreachFromVertex,
                                            canreachMayHaveFalsePositives)],
                   g, SortedSeq(canreachFrom))
      IN  IF g1.err # "none" THEN g1
          ELSE [g1 EXCEPT !.c =
                  OGSetEdge(IF EdgeExists(@, toVertex, fromVertex)
                            THEN OGClearEdge(@, toVertex, fromVertex).buf
                            ELSE @,
                            fromVertex, toVertex).buf]

\* DirectedAcyclicGraph::ClearEdge: [g, ret]
ClearEdge(m, g, fromVertex, toVertex) ==
    IF ~(HasLinkageAsserts(g.d, fromVertex, toVertex)
         /\ HasLinkageAsserts(g.c, fromVertex, toVertex))
    THEN [g |-> Fail(g, "HasLinkage: VertexExists"), ret |-> FALSE]
    ELSE IF m = "rwl"
    THEN
      IF ~EdgeExists(g.d, fromVertex, toVertex) THEN [g |-> g, ret |-> FALSE]
      ELSE
        LET extra == GetTristateForConnection(g, fromVertex, toVertex)
            g1 == SetTristateForConnection(g, fromVertex, toVertex, 0)
            g2 == [g1 EXCEPT !.d = OGClearEdge(@, fromVertex, toVertex).buf]
            vertexTypeFrom == GetVertexType(g2.c, fromVertex)
        IN  IF vertexTypeFrom = canreachClean /\ extra = isReachableWithoutEdge
            THEN [g |-> [g2 EXCEPT !.c = OGSetEdge(@, fromVertex, toVertex).buf],
                  ret |-> TRUE]
            ELSE [g |-> DirtyUpstream(g2, fromVertex, toVertex), ret |-> TRUE]
    ELSE
      LET cleared == OGClearEdge(g.d, fromVertex, toVertex)
      IN  IF ~cleared.ret THEN [g |-> g, ret |-> FALSE]
          ELSE [g |-> DirtyUpstream([g EXCEPT !.d = cleared.buf],
                                    fromVertex, toVertex),
                ret |-> TRUE]

\* DirectedAcyclicGraph::CreateVertexEx
DAGCreateVertexEx(g, vertexE, vertexType) ==
    [g EXCEPT !.d = CreateVertexEx(@, vertexE, vertexType),
              !.c = CreateVertexEx(@, vertexE, canreachClean)]

\* DirectedAcyclicGraph::DestroyVertexEx: m_canreach is always destroyed with
\* both counts requested
DAGDestroyVertexEx(g, vertex, compactIfDestroy, countsRequested) ==
    [g EXCEPT !.d = OGDestroyVertexEx(@, vertex, compactIfDestroy,
                                      countsRequested),
              !.c = OGDestroyVertexEx(@, vertex, compactIfDestroy, TRUE)]

\* DirectedAcyclicGraph::DestroyVertexDontCompact
DAGDestroyVertexDontCompact(g, vertex, countsRequested) ==
    DAGDestroyVertexEx(g, vertex, FALSE, countsRequested)

\* DirectedAcyclicGraph::DestroySourceVertexEx: the incoming count is always
\* requested and asserted to be 0 after the vertex is destroyed
DAGDestroySourceVertexEx(g, vertex, compactIfDestroy) ==
    IF IncomingEdgesForVertex(g.d, vertex) # {}
    THEN Fail(DAGDestroyVertexEx(g, vertex, compactIfDestroy, TRUE),
              "DestroySourceVertexEx: incomingEdgeCount == 0")
    ELSE DAGDestroyVertexEx(g, vertex, compactIfDestroy, TRUE)

\* DirectedAcyclicGraph::DestroySourceVertexDontCompact
DAGDestroySourceVertexDontCompact(g, vertex) ==
    DAGDestroySourceVertexEx(g, vertex, FALSE)

\* DirectedAcyclicGraph::DestroySinkVertexEx
DAGDestroySinkVertexEx(g, vertex, compactIfDestroy) ==
    IF OutgoingEdgesForVertex(g.d, vertex) # {}
    THEN Fail(DAGDestroyVertexEx(g, vertex, compactIfDestroy, TRUE),
              "DestroySinkVertexEx: outgoingEdgeCount == 0")
    ELSE DAGDestroyVertexEx(g, vertex, compactIfDestroy, TRUE)

\* DirectedAcyclicGraph::DestroySinkVertexDontCompact
DAGDestroySinkVertexDontCompact(g, vertex) ==
    DAGDestroySinkVertexEx(g, vertex, FALSE)

\* DirectedAcyclicGraph::DestroyIsolatedVertexEx
DAGDestroyIsolatedVertexEx(g, vertex, compactIfDestroy) ==
    IF IncomingEdgesForVertex(g.d, vertex) # {}
       \/ OutgoingEdgesForVertex(g.d, vertex) # {}
    THEN Fail(DAGDestroyVertexEx(g, vertex, compactIfDestroy, TRUE),
              "DestroyIsolatedVertexEx: edge count == 0")
    ELSE DAGDestroyVertexEx(g, vertex, compactIfDestroy, TRUE)

\* DirectedAcyclicGraph::DestroyIsolatedVertexDontCompact: it passes
\* true for compactIfDestroy
DAGDestroyIsolatedVertexDontCompact(g, vertex) ==
    DAGDestroyIsolatedVertexEx(g, vertex, TRUE)

\* DirectedAcyclicGraph::SetCapacityForMaxValidVertexID
DAGSetCapacityForMaxValidVertexID(g, vertexL) ==
    [g EXCEPT !.d = SetCapacityForMaxValidVertexID(@, vertexL),
              !.c = SetCapacityForMaxValidVertexID(@, vertexL)]

\* DirectedAcyclicGraph::SetCapacitySoVertexIsFirstInvalidID: m_canreach is
\* resized with SetCapacityForMaxValidVertexID
DAGSetCapacitySoVertexIsFirstInvalidID(g, vertexL) ==
    [g EXCEPT !.d = SetCapacitySoVertexIsFirstInvalidID(@, vertexL),
              !.c = SetCapacityForMaxValidVertexID(@, vertexL)]

\* DirectedAcyclicGraph::GrowCapacityForMaxValidVertexID
DAGGrowCapacityForMaxValidVertexID(g, vertexL) ==
    IF ~(vertexL >= GetFirstInvalidVertexID(g.d))
    THEN Fail(g, "GrowCapacityForMaxValidVertexID: vertexL")
    ELSE [g EXCEPT !.d = SetCapacityForMaxValidVertexID(@, vertexL),
                   !.c = SetCapacityForMaxValidVertexID(@, vertexL)]

\* DirectedAcyclicGraph::ShrinkCapacitySoVertexIsFirstInvalidID
DAGShrinkCapacitySoVertexIsFirstInvalidID(g, vertexL) ==
    IF ~(vertexL < GetFirstInvalidVertexID(g.d))
    THEN Fail(g, "ShrinkCapacitySoVertexIsFirstInvalidID: vertexL")
    ELSE IF ~(vertexL < GetFirstInvalidVertexID(g.c))
    THEN Fail([g EXCEPT !.d = SetCapacitySoVertexIsFirstInvalidID(@, vertexL)],
              "ShrinkCapacitySoVertexIsFirstInvalidID: vertexL")
    ELSE [g EXCEPT !.d = SetCapacitySoVertexIsFirstInvalidID(@, vertexL),
                   !.c = SetCapacitySoVertexIsFirstInvalidID(@, vertexL)]

(***************************************************************************)
(* Reference DAG (BoostDirectedAcyclicGraph): a set of edges, a fresh      *)
(* depth-first search at every insertion                                   *)
(***************************************************************************)
RECURSIVE ReachableFrom(_, _)
\* the vertices a search started at the vertices of `seen' discovers
ReachableFrom(E, seen) ==
    LET next == seen \cup {e[2] : e \in {x \in E : x[1] \in seen}}
    IN  IF next = seen THEN seen ELSE ReachableFrom(E, next)

\* a directed path of at least one edge leads from a to b
PathExists(E, a, b) == b \in ReachableFrom(E, {e[2] : e \in {x \in E : x[1] = a}})

\* BoostDirectedAcyclicGraph::SetEdge: [E, ret]
BoostSetEdge(E, fromVertex, toVertex) ==
    IF <<fromVertex, toVertex>> \in E THEN [E |-> E, ret |-> "false"]
    ELSE IF fromVertex \in ReachableFrom(E, {toVertex})
    THEN [E |-> E, ret |-> "bad_cycle"]
    ELSE [E |-> E \cup {<<fromVertex, toVertex>>}, ret |-> "true"]

\* BoostOrientedGraph::ClearEdge
BoostClearEdge(E, fromVertex, toVertex) == E \ {<<fromVertex, toVertex>>}

(***************************************************************************)
(* What an observer sees of a graph                                        *)
(***************************************************************************)
Ids(buf) == 0..(GetFirstInvalidVertexID(buf) - 1)

LiveIds(buf) == {v \in Ids(buf) : VertexExists(buf, v)}

\* the edges between live vertices
Edges(buf) ==
    {e \in LiveIds(buf) \X LiveIds(buf) :
        e[1] # e[2] /\ EdgeExists(buf, e[1], e[2])}

\* the user-visible tag of every live vertex
Tags(buf) == [v \in LiveIds(buf) |-> GetVertexType(buf, v)]

(***************************************************************************)
(* The state machine: a DirectedAcyclicGraph and the calls made on it      *)
(***************************************************************************)
\* the DirectedAcyclicGraph object of the current state
This == [d |-> data, c |-> canreach, err |-> failed]

\* no NstateArray is used on its own
NstateIdle ==
    /\ nv = NstateArray(0)
    /\ vec = <<>>
    /\ beyond = 0
    /\ dropped = -1

\* the two threads that call CanReach on one DirectedAcyclicGraph
Threads == {"first", "second"}

\* no thread has called CanReach
ThreadsIdle ==
    /\ at = [t \in Threads |-> "idle"]
    /\ call = [t \in Threads |-> <<0, 0>>]
    /\ answer = [t \in Threads |-> "none"]
    /\ canreachBefore = <<>>
    /\ overlapped = FALSE

\* no OrientedGraph is used on its own
OrientedIdle ==
    /\ og = OrientedGraph(0)
    /\ bog = [exists |-> {}, E |-> {}]

\* no DirectedAcyclicGraph is used
DagIdle ==
    /\ mode = "rwl"
    /\ data = OrientedGraph(0)
    /\ canreach = OrientedGraph(0)
    /\ failed = "none"
    /\ bdag = {}
    /\ nops = 0
    /\ written = <<>>

\* a function without the arguments of S
Without(f, S) == [x \in (DOMAIN f) \ S |-> f[x]]

\* DirectedAcyclicGraph(initial_size) and BoostDirectedAcyclicGraph
Init ==
    /\ mode \in Modes
    /\ data = OrientedGraph(MaxVertices)
    /\ canreach = OrientedGraph(MaxVertices)
    /\ failed = "none"
    /\ bdag = {}
    /\ nops = 0
    /\ written = <<>>
    /\ NstateIdle
    /\ OrientedIdle
    /\ ThreadsIdle

\* a call can be made: the program has not aborted
CanCall == failed = "none" /\ nops < MaxOps

\* the object is left as g
Becomes(g) ==
    /\ data' = g.d
    /\ canreach' = g.c
    /\ failed' = g.err

\* CreateVertex(vertexE) on a hole within the capacity
DoCreateVertex ==
    /\ CanCall
    /\ \E vertexE \in Ids(data) :
        /\ ~VertexExists(data, vertexE)
        /\ Becomes(DAGCreateVertexEx(This, vertexE, vertexTypeOne))
    /\ nops' = nops + 1
    /\ UNCHANGED <<mode, bdag, written, nstateVars, ogVars, threadVars>>

\* DestroyVertexEx(vertex, vertexType, compactIfDestroy, incomingEdgeCount,
\* outgoingEdgeCount) on a live vertex; the reference clears the vertex
DoDestroyVertex ==
    /\ CanCall
    /\ \E vertex \in LiveIds(data), compactIfDestroy \in BOOLEAN,
          countsRequested \in BOOLEAN :
        /\ Becomes(DAGDestroyVertexEx(This, vertex, compactIfDestroy,
                                      countsRequested))
        /\ bdag' = {e \in bdag : e[1] # vertex /\ e[2] # vertex}
        /\ written' = Without(written,
                           {e \in DOMAIN written :
                               e[1] = vertex \/ e[2] = vertex})
    /\ nops' = nops + 1
    /\ UNCHANGED <<mode, nstateVars, ogVars, threadVars>>

\* SetEdge(fromVertex, toVertex) on live, distinct vertices
DoSetEdge ==
    /\ CanCall
    /\ \E fromVertex \in LiveIds(data), toVertex \in LiveIds(data) :
        /\ fromVertex # toVertex
        /\ Becomes(SetEdge(mode, This, fromVertex, toVertex).g)
        /\ bdag' = BoostSetEdge(bdag, fromVertex, toVertex).E
    /\ nops' = nops + 1
    /\ UNCHANGED <<mode, written, nstateVars, ogVars, threadVars>>

\* ClearEdge(fromVertex, toVertex) on live, distinct vertices
DoClearEdge ==
    /\ CanCall
    /\ \E fromVertex \in LiveIds(data), toVertex \in LiveIds(data) :
        /\ fromVertex # toVertex
        /\ Becomes(ClearEdge(mode, This, fromVertex, toVertex).g)
        /\ bdag' = BoostClearEdge(bdag, fromVertex, toVertex)
        /\ written' = Without(written, {<<fromVertex, toVertex>>})
    /\ nops' = nops + 1
    /\ UNCHANGED <<mode, nstateVars, ogVars, threadVars>>

\* CanReach(fromVertex, toVertex) on live, distinct vertices
DoCanReach ==
    /\ CanCall
    /\ \E fromVertex \in LiveIds(data), toVertex \in LiveIds(data) :
        /\ fromVertex # toVertex
        /\ Becomes(CanReach(mode, This, fromVertex, toVertex).g)
    /\ nops' = nops + 1
    /\ UNCHANGED <<mode, bdag, written, nstateVars, ogVars, threadVars>>

\* every operation of the DirectedAcyclicGraph
Next ==
    \/ DoCreateVertex
    \/ DoDestroyVertex
    \/ DoSetEdge
    \/ DoClearEdge
    \/ DoCanReach

Spec == Init /\ [][Next]_vars

\* the calls of the consistency checker's setting: no vertex is destroyed
NextNoDestroy ==
    \/ DoCreateVertex
    \/ DoSetEdge
    \/ DoClearEdge
    \/ DoCanReach

SpecNoDestroy == Init /\ [][NextNoDestroy]_vars

\* the calls of the fuzz test: vertices are created, edges added and removed
NextFuzz ==
    \/ DoCreateVertex
    \/ DoSetEdge
    \/ DoClearEdge

SpecFuzz == Init /\ [][NextFuzz]_vars

(***************************************************************************)
(* The DirectedAcyclicGraph built with DIRECTEDACYCLICGRAPH_USER_TRISTATE: *)
(* the code of CACHE_REACHABILITY alone, with GetTristateForConnection and *)
(* SetTristateForConnection public                                         *)
(***************************************************************************)
InitUserTristate ==
    /\ mode = "plain"
    /\ data = OrientedGraph(MaxVertices)
    /\ canreach = OrientedGraph(MaxVertices)
    /\ failed = "none"
    /\ bdag = {}
    /\ nops = 0
    /\ written = <<>>
    /\ NstateIdle
    /\ OrientedIdle
    /\ ThreadsIdle

\* SetTristateForConnection(fromVertex, toVertex, tristate) on an edge, on
\* the DAG and on the reference
DoSetTristate ==
    /\ CanCall
    /\ \E e \in Edges(data), tristate \in 0..2 :
        /\ Becomes(SetTristateForConnection(This, e[1], e[2], tristate))
        /\ written' = [x \in (DOMAIN written) \cup {e} |->
                          IF x = e THEN tristate ELSE written[x]]
    /\ nops' = nops + 1
    /\ UNCHANGED <<mode, bdag, nstateVars, ogVars, threadVars>>

NextUserTristate ==
    \/ DoCreateVertex
    \/ DoSetEdge
    \/ DoClearEdge
    \/ DoCanReach
    \/ DoSetTristate

SpecUserTristate == InitUserTristate /\ [][NextUserTristate]_vars

(***************************************************************************)
(* The DirectedAcyclicGraph with its capacity changed between the calls    *)
(***************************************************************************)
\* the object is left as g; the reference and the record of written
\* tristates lose what lies at or above the first invalid id
Recapacitated(g) ==
    /\ Becomes(g)
    /\ bdag' = {e \in bdag : e[1] \in Ids(g.d) /\ e[2] \in Ids(g.d)}
    /\ written' = Without(written,
                      {e \in DOMAIN written :
                          e[1] \notin Ids(g.d) \/ e[2] \notin Ids(g.d)})
    /\ nops' = nops + 1
    /\ UNCHANGED <<mode, nstateVars, ogVars, threadVars>>

DoSetCapacityForMaxValidVertexID ==
    /\ CanCall
    /\ \E vertexL \in 0..(MaxVertices - 1) :
          Recapacitated(DAGSetCapacityForMaxValidVertexID(This, vertexL))

DoSetCapacitySoVertexIsFirstInvalidID ==
    /\ CanCall
    /\ \E vertexL \in 0..MaxVertices :
          Recapacitated(DAGSetCapacitySoVertexIsFirstInvalidID(This, vertexL))

\* the caller keeps to vertexL >= GetFirstInvalidVertexID()
DoGrowCapacityForMaxValidVertexID ==
    /\ CanCall
    /\ \E vertexL \in GetFirstInvalidVertexID(data)..(MaxVertices - 1) :
          Recapacitated(DAGGrowCapacityForMaxValidVertexID(This, vertexL))

\* the caller keeps to vertexL < GetFirstInvalidVertexID()
DoShrinkCapacitySoVertexIsFirstInvalidID ==
    /\ CanCall
    /\ \E vertexL \in 0..(GetFirstInvalidVertexID(data) - 1) :
          Recapacitated(DAGShrinkCapacitySoVertexIsFirstInvalidID(This, vertexL))

NextCapacity ==
    \/ DoCreateVertex
    \/ DoDestroyVertex
    \/ DoSetEdge
    \/ DoClearEdge
    \/ DoGrowCapacityForMaxValidVertexID
    \/ DoShrinkCapacitySoVertexIsFirstInvalidID
    \/ DoSetCapacityForMaxValidVertexID
    \/ DoSetCapacitySoVertexIsFirstInvalidID

SpecCapacity == Init /\ [][NextCapacity]_vars

(***************************************************************************)
(* An NstateArray<3> beside a std::vector, as in NstateArray::SelfTest     *)
(***************************************************************************)
InitNstate ==
    /\ \E initialSize \in 0..MaxLength :
          /\ nv = NstateArray(initialSize)
          /\ vec = [i \in 1..initialSize |-> 0]
    /\ beyond \in BeyondTable
    /\ dropped = -1
    /\ DagIdle
    /\ OrientedIdle
    /\ ThreadsIdle

\* nv[index] = tRand; v[index] = tRand
DoWriteDigit ==
    /\ \E pos \in 0..(nv.m_max - 1), t \in 0..(radix - 1) :
        /\ nv' = NstateArraySet(nv, pos, t)
        /\ vec' = [vec EXCEPT ![pos + 1] = t]
        /\ dropped' = IF pos = dropped THEN -1 ELSE dropped
    /\ UNCHANGED <<beyond, dagVars, ogVars, threadVars>>

\* nv.ResizeWithZeros(max); v.resize(max, 0)
DoResize ==
    /\ \E max \in 0..MaxLength :
        /\ nv' = PackedResizeWithZeros(nv, max)
        /\ vec' = ResizeWithZeros(vec, max)
        /\ dropped' =
              LET cut == {pos \in max..(Len(vec) - 1) : vec[pos + 1] # 0}
              IN  IF cut # {}
                  THEN CHOOSE pos \in cut : \A other \in cut : pos <= other
                  ELSE dropped
    /\ UNCHANGED <<beyond, dagVars, ogVars, threadVars>>

NextNstate ==
    \/ DoWriteDigit
    \/ DoResize

SpecNstate == InitNstate /\ [][NextNstate]_vars

(***************************************************************************)
(* An OrientedGraph beside a BoostOrientedGraph, as in                     *)
(* OrientedGraph::SelfTest                                                 *)
(***************************************************************************)
InitOriented ==
    /\ \E initial_size \in 0..MaxVertices : og = OrientedGraph(initial_size)
    /\ bog = [exists |-> {}, E |-> {}]
    /\ DagIdle
    /\ NstateIdle
    /\ ThreadsIdle

\* og.CreateVertexEx(vertexE, vertexType); bog.CreateVertex(vertexE)
DoOGCreateVertex ==
    /\ \E vertexE \in Ids(og), vertexType \in {vertexTypeOne, vertexTypeTwo} :
        /\ ~VertexExists(og, vertexE)
        /\ og' = CreateVertexEx(og, vertexE, vertexType)
        /\ bog' = [bog EXCEPT !.exists = @ \cup {vertexE}]
    /\ UNCHANGED <<dagVars, nstateVars, threadVars>>

\* og.AddEdge and bog.AddEdge on a pair GetRandomNonEdge can give: live,
\* distinct, without linkage
DoOGAddEdge ==
    /\ \E fromVertex \in LiveIds(og), toVertex \in LiveIds(og) :
        /\ fromVertex # toVertex
        /\ ~HasLinkage(og, fromVertex, toVertex)
        /\ og' = OGSetEdge(og, fromVertex, toVertex).buf
        /\ bog' = [bog EXCEPT !.E = @ \cup {<<fromVertex, toVertex>>}]
    /\ UNCHANGED <<dagVars, nstateVars, threadVars>>

NextOriented ==
    \/ DoOGCreateVertex
    \/ DoOGAddEdge

SpecOriented == InitOriented /\ [][NextOriented]_vars

(***************************************************************************)
(* Two threads that call CanReach on one DirectedAcyclicGraph without a    *)
(* lock.  A thread's call is cut where it reads or writes m_canreach: the  *)
(* read of the vertex type, the read of the cell, the loop that clears the *)
(* row, the loops that rebuild it, and the read of the cell that is         *)
(* returned.  The graph is built by one thread before the two start.        *)
(***************************************************************************)
\* no thread has started: the graph is still being built
BeforeThreads == \A t \in Threads : at[t] = "idle"

\* thread t is inside CanReach
Inside(t) == at[t] \notin {"idle", "done"}

\* thread t goes on to `where'; canreach and failed are left as in g
GoesOn(t, where, g) ==
    /\ failed = "none"
    /\ at' = [at EXCEPT ![t] = IF g.err = "none" THEN where ELSE "done"]
    /\ Becomes(g)
    /\ overlapped' = (overlapped \/ \E u \in Threads \ {t} : Inside(u))
    /\ UNCHANGED <<mode, bdag, nops, written, nstateVars, ogVars>>

\* thread t returns value from CanReach
Returns(t, value) ==
    /\ GoesOn(t, "done", This)
    /\ answer' = [answer EXCEPT ![t] = IF value THEN "true" ELSE "false"]

\* CanReach up to the switch: a physical edge between the two vertices
\* decides the answer
ThreadCall(t) ==
    /\ at[t] = "idle"
    /\ \E fromVertex \in LiveIds(data), toVertex \in LiveIds(data) :
        /\ fromVertex # toVertex
        /\ call' = [call EXCEPT ![t] = <<fromVertex, toVertex>>]
        /\ IF EdgeExists(data, fromVertex, toVertex)
           THEN Returns(t, TRUE)
           ELSE IF ReverseEdgeExists(data, fromVertex, toVertex)
           THEN Returns(t, FALSE)
           ELSE GoesOn(t, "type", This) /\ UNCHANGED answer
    /\ canreachBefore' = IF BeforeThreads THEN canreach ELSE canreachBefore

\* switch (m_canreach.GetVertexType(fromVertex))
ThreadReadType(t) ==
    /\ at[t] = "type"
    /\ GoesOn(t, IF GetVertexType(canreach, call[t][1]) = canreachClean
                 THEN "answer" ELSE "cell", This)
    /\ UNCHANGED <<call, answer, canreachBefore>>

\* case canreachMayHaveFalsePositives: a cell that is not set is no false
\* positive
ThreadReadCell(t) ==
    /\ at[t] = "cell"
    /\ IF EdgeExists(canreach, call[t][1], call[t][2])
       THEN GoesOn(t, "clear", This) /\ UNCHANGED answer
       ELSE Returns(t, FALSE)
    /\ UNCHANGED <<call, canreachBefore>>

\* CleanUpReachability, its first loop
ThreadClearRow(t) ==
    /\ at[t] = "clear"
    /\ GoesOn(t, "rebuild", ClearRow(This, call[t][1]))
    /\ UNCHANGED <<call, answer, canreachBefore>>

\* CleanUpReachability from its second loop on
ThreadRebuildRow(t) ==
    /\ at[t] = "rebuild"
    /\ GoesOn(t, "answer",
              RebuildRow(mode, This, call[t][1], call[t][2], CleanFuel))
    /\ UNCHANGED <<call, answer, canreachBefore>>

\* return m_canreach.EdgeExists(fromVertex, toVertex)
ThreadAnswer(t) ==
    /\ at[t] = "answer"
    /\ Returns(t, EdgeExists(canreach, call[t][1], call[t][2]))
    /\ UNCHANGED <<call, canreachBefore>>

\* the calls that build the graph
DoCreateVertexFirst == BeforeThreads /\ DoCreateVertex

DoSetEdgeFirst == BeforeThreads /\ DoSetEdge

DoClearEdgeFirst == BeforeThreads /\ DoClearEdge

NextThreads ==
    \/ DoCreateVertexFirst
    \/ DoSetEdgeFirst
    \/ DoClearEdgeFirst
    \/ \E t \in Threads : ThreadCall(t)
    \/ \E t \in Threads : ThreadReadType(t)
    \/ \E t \in Threads : ThreadReadCell(t)
    \/ \E t \in Threads : ThreadClearRow(t)
    \/ \E t \in Threads : ThreadRebuildRow(t)
    \/ \E t \in Threads : ThreadAnswer(t)

SpecThreads == Init /\ [][NextThreads]_vars

(***************************************************************************)
(* Properties                                                              *)
(***************************************************************************)
\* the ordered pairs of distinct live vertices of a graph
LivePairs(buf) ==
    {p \in LiveIds(buf) \X LiveIds(buf) : p[1] # p[2]}

\* a directed cycle among live vertices of the data graph
HasCycle(buf) == \E v \in LiveIds(buf) : PathExists(Edges(buf), v, v)

\* the vertices reachable from v by a directed path of data
TrueReach(buf, v) ==
    ReachableFrom(Edges(buf), {e[2] : e \in {x \in Edges(buf) : x[1] = v}})

\* the largest live id plus one, or 0 when no vertex is live
OnePastLargest(S) ==
    IF S = {} THEN 0 ELSE 1 + (CHOOSE x \in S : \A y \in S : y <= x)

\* the connection cells of the buffer that involve the vertex
CellsOfVertex(buf, v) ==
    {pos \in 0..(Len(buf) - 1) :
        \E u \in Ids(buf) \ {v} :
            pos = TristateIndexForConnection(Min(u, v), Max(u, v))}

\* C1: in every state reachable by create_vertex, destroy_vertex (any
\* variant), set_edge, clear_edge and can_reach calls, the data graph has no
\* directed cycle among its live vertices.
C1_DataGraphIsAcyclic == ~HasCycle(data)

\* C2: in every state the fuzz test can reach, the DAG and the reference DAG
\* hold the same edges, and every set_edge call gets the same outcome from
\* both: the same calls are rejected as cycles, none is missed and none is
\* rejected falsely.
C2_SameRejectionsAsReference ==
    failed = "none" =>
        /\ Edges(data) = bdag
        /\ \A p \in LivePairs(data) :
              SetEdge(mode, This, p[1], p[2]).ret
                  = BoostSetEdge(bdag, p[1], p[2]).ret

\* C3: whenever a directed path leads from `to' to `from' in the data graph,
\* set_edge(from, to) signals the cycle and leaves the live vertices, the
\* vertex tags and the edges of the data graph as they were.
C3_CycleIsRejectedGraphUnchanged ==
    failed = "none" =>
        \A p \in LivePairs(data) :
            PathExists(Edges(data), p[2], p[1]) =>
                LET r == SetEdge(mode, This, p[1], p[2])
                IN  /\ r.ret = "bad_cycle"
                    /\ LiveIds(r.g.d) = LiveIds(data)
                    /\ Tags(r.g.d) = Tags(data)
                    /\ Edges(r.g.d) = Edges(data)

\* C4: no false negatives.  In every state reachable by create_vertex,
\* set_edge, clear_edge and can_reach, what OutgoingReachIncludingSelf gives
\* for a live vertex contains the vertex and everything reachable from it by
\* a directed path of data.
C4_NoFalseNegatives ==
    \A v \in LiveIds(data) :
        ({v} \cup TrueReach(data, v)) \subseteq
            OutgoingReachForVertexIncludingSelf(This, v)

\* a Dirty vertex reaches another vertex over more than one edge only, and
\* its row holds that vertex
C4_Witness ==
    \E v \in LiveIds(data) :
        /\ GetVertexType(canreach, v) = canreachMayHaveFalsePositives
        /\ \E u \in TrueReach(data, v) :
              /\ ~EdgeExists(data, v, u)
              /\ u \in OutgoingReachForVertexIncludingSelf(This, v)

\* C5: Clean means exact.  In every state reachable by create_vertex,
\* set_edge, clear_edge and can_reach, what OutgoingReachIncludingSelf gives
\* for a live vertex whose canreach tag is Clean is exactly the vertex and
\* everything reachable from it in data.
C5_CleanIsExact ==
    \A v \in LiveIds(data) :
        GetVertexType(canreach, v) = canreachClean =>
            OutgoingReachForVertexIncludingSelf(This, v)
                = {v} \cup TrueReach(data, v)

\* C6: after destroy_vertex(v), can_reach(a, b) is true for remaining live
\* a # b exactly when a directed path leads from a to b in the remaining
\* data graph.
C6_ReachAfterDestroyIsPathInData ==
    failed = "none" =>
        \A v \in LiveIds(data), compactIfDestroy \in BOOLEAN,
           countsRequested \in BOOLEAN :
            LET g == DAGDestroyVertexEx(This, v, compactIfDestroy,
                                        countsRequested)
            IN  \A p \in LivePairs(g.d) :
                    LET r == CanReach(mode, g, p[1], p[2])
                    IN  /\ r.g.err = "none"
                        /\ r.ret <=> PathExists(Edges(g.d), p[1], p[2])

\* C7: after destroy_vertex(v), with or without the edge counts requested,
\* every connection cell that involves v is 0, and a create_vertex(v) that
\* follows gives a vertex without incident edges.
C7_DestroyClearsConnectionCells ==
    failed = "none" =>
        \A v \in LiveIds(data), compactIfDestroy \in BOOLEAN,
           countsRequested \in BOOLEAN :
            LET g == DAGDestroyVertexEx(This, v, compactIfDestroy,
                                        countsRequested)
            IN  /\ \A pos \in CellsOfVertex(g.d, v) :
                      Digit(g.d, pos) = notConnected
                /\ v \in Ids(g.d) =>
                      LET h == DAGCreateVertexEx(g, v, vertexTypeOne)
                      IN  /\ OutgoingEdgesForVertex(h.d, v) = {}
                          /\ IncomingEdgesForVertex(h.d, v) = {}

\* C8: after destroy_vertex(v, compact = true) from any reachable state,
\* first_invalid is one plus the largest id still live, or 0 when none is.
C8_CompactionShrinksToLargestLive ==
    failed = "none" =>
        \A v \in LiveIds(data), countsRequested \in BOOLEAN :
            LET g == DAGDestroyVertexEx(This, v, TRUE, countsRequested)
            IN  /\ GetFirstInvalidVertexID(g.d)
                      = OnePastLargest(LiveIds(data) \ {v})
                /\ LiveIds(g.d) = LiveIds(data) \ {v}

\* the compacting destroy of the top vertex walks down over a hole and stops
\* at a live vertex
C8_Witness ==
    /\ failed = "none"
    /\ \E v \in LiveIds(data) :
          LET g == DAGDestroyVertexEx(This, v, TRUE, FALSE)
          IN  /\ LiveIds(g.d) # {}
              /\ GetFirstInvalidVertexID(g.d) + 2
                    <= GetFirstInvalidVertexID(data)

\* C9: for live from # to without a path from `to' to `from' (and without
\* the edge itself), set_edge(from, to) called twice returns true and then
\* false, on the OrientedGraph and on the DAG, and the second call leaves
\* the whole state as the first call left it.
C9_SetEdgeTwice ==
    failed = "none" =>
        \A p \in LivePairs(data) :
            (/\ ~PathExists(Edges(data), p[2], p[1])
             /\ ~HasLinkage(data, p[1], p[2])) =>
                LET first == SetEdge(mode, This, p[1], p[2])
                    second == SetEdge(mode, first.g, p[1], p[2])
                    ogFirst == OGSetEdge(data, p[1], p[2])
                    ogSecond == OGSetEdge(ogFirst.buf, p[1], p[2])
                IN  /\ first.ret = "true"
                    /\ second.ret = "false"
                    /\ second.g = first.g
                    /\ ogFirst.ret /\ ogFirst.err = "none"
                    /\ ~ogSecond.ret /\ ogSecond.err = "none"
                    /\ ogSecond.buf = ogFirst.buf

\* C10: clear_edge(from, to) when the edge from -> to is not present (the
\* pair is unlinked or holds the edge to -> from) returns false and changes
\* no data cell, no canreach cell and no tag, in every cache mode (without
\* the cache, clear_edge is OrientedGraph::ClearEdge).
C10_ClearOfAbsentEdgeChangesNothing ==
    failed = "none" =>
        \A p \in LivePairs(data) :
            ~EdgeExists(data, p[1], p[2]) =>
                LET r == ClearEdge(mode, This, p[1], p[2])
                    cleared == OGClearEdge(data, p[1], p[2])
                IN  /\ ~r.ret
                    /\ r.g = This
                    /\ ~cleared.ret
                    /\ cleared.buf = data

\* clear_edge against the direction of a present edge and on an unlinked
\* pair, in a state with a Dirty row
C10_Witness ==
    /\ failed = "none"
    /\ \E v \in LiveIds(data) :
          GetVertexType(canreach, v) = canreachMayHaveFalsePositives
    /\ \E p \in LivePairs(data) :
          /\ ReverseEdgeExists(data, p[1], p[2])
          /\ ~ClearEdge(mode, This, p[1], p[2]).ret
    /\ \E p \in LivePairs(data) :
          /\ ~HasLinkage(data, p[1], p[2])
          /\ ~ClearEdge(mode, This, p[1], p[2]).ret

\* C11: for every live vertex v of every reachable state, can_reach(v, v)
\* returns false (it returns, and the value is false).
C11_SelfReachIsFalse ==
    failed = "none" =>
        \A v \in LiveIds(data) :
            LET r == CanReach(mode, This, v, v)
            IN  /\ r.g.err = "none"
                /\ ~r.ret

\* C12: in every reachable state, for live a # b, edge_exists(a, b) and
\* edge_exists(b, a) are never both true, and has_linkage(a, b) reports
\* forward exactly when has_linkage(b, a) reports reverse; the same in the
\* data graph and in m_canreach.
C12_NoMutualEdges ==
    \A buf \in {data, canreach} :
        \A p \in LivePairs(buf) :
            /\ ~(EdgeExists(buf, p[1], p[2]) /\ EdgeExists(buf, p[2], p[1]))
            /\ EdgeExists(buf, p[1], p[2]) <=> ReverseEdgeExists(buf, p[2], p[1])
            /\ HasLinkage(buf, p[1], p[2]) <=> HasLinkage(buf, p[2], p[1])

\* the data graph holds an edge from a lower to a higher id and one from a
\* higher to a lower id, and m_canreach holds a cell of an unlinked pair
C12_Witness ==
    /\ \E p \in LivePairs(data) : p[1] < p[2] /\ EdgeExists(data, p[1], p[2])
    /\ \E p \in LivePairs(data) : p[1] > p[2] /\ EdgeExists(data, p[1], p[2])
    /\ \E p \in LivePairs(canreach) :
          /\ ~HasLinkage(data, p[1], p[2])
          /\ EdgeExists(canreach, p[1], p[2])

\* C13: for every packed word p below 3^D, every digit position d < D and
\* every t in {0, 1, 2}: digit d of SetDigitInPackedValue(p, d, t) reads t,
\* every other digit reads as in p, and the result is again below 3^D; the
\* arithmetic is that of the word width, and the result does not depend on
\* what the table lookup behind the last entry gives.
C13_PackingRoundTrip ==
    \A i \in DOMAIN nv.m_buffer :
        \A digit \in 0..(NstatesInPackedType - 1), t \in 0..(radix - 1) :
            LET packed == nv.m_buffer[i]
                set == SetDigitInPackedValue(packed, digit, t)
            IN  packed < Pow(radix, NstatesInPackedType) =>
                    /\ GetDigitInPackedValue(set, digit) = t
                    /\ \A other \in (0..(NstatesInPackedType - 1)) \ {digit} :
                          GetDigitInPackedValue(set, other)
                              = GetDigitInPackedValue(packed, other)
                    /\ set < Pow(radix, NstatesInPackedType)

\* a word of the array holds the largest packed value, 3^D - 1, and the
\* memory behind the power table holds a nonzero value
C13_Witness ==
    /\ beyond # 0
    /\ \E i \in DOMAIN nv.m_buffer :
          nv.m_buffer[i] = Pow(radix, NstatesInPackedType) - 1

\* C15: under any sequence of digit writes and ResizeWithZeros calls the
\* packed array is the plain vector of digits that is truncated on shrink and
\* zero-extended on growth: the same length, the same digit at every index
\* (so an index that a growth exposes reads 0 whatever was stored there
\* before an earlier shrink), in as many words as the length needs.
C15_PackedArrayIsVector ==
    /\ nv.m_max = Len(vec)
    /\ DigitsOf(nv) = vec
    /\ Len(nv.m_buffer) * NstatesInPackedType >= nv.m_max
    /\ Len(nv.m_buffer) * NstatesInPackedType < nv.m_max + NstatesInPackedType

\* a position whose nonzero digit was cut off by a shrink is within the array
\* again after a growth and reads 0; the array spans more than one word
C15_Witness ==
    /\ dropped >= 0
    /\ dropped < nv.m_max
    /\ NstateArrayGet(nv, dropped) = 0
    /\ Len(nv.m_buffer) > 1

\* C14: for the capacity n of the graph, the existence indices E(v), v < n,
\* and the connection indices C(s, l), s < l < n, are pairwise distinct and
\* are together exactly the positions 0 .. E(n) - 1 of the buffer; the inverse
\* functions return v for E(v) and return (s, l) for C(s, l), for all s < l.
C14_LayoutRoundTrip ==
    LET n == GetFirstInvalidVertexID(og)
        pairs == {p \in (0..(n - 1)) \X (0..(n - 1)) : p[1] < p[2]}
        existence == {TristateIndexForExistence(v) : v \in 0..(n - 1)}
        connection == {TristateIndexForConnection(p[1], p[2]) : p \in pairs}
    IN  /\ Len(og) = TristateIndexForExistence(n)
        /\ Cardinality(existence) = n
        /\ Cardinality(connection) = Cardinality(pairs)
        /\ existence \cap connection = {}
        /\ existence \cup connection = 0..(Len(og) - 1)
        /\ \A v \in 0..(n - 1) :
              /\ IsExistenceTristateIndex(TristateIndexForExistence(v))
              /\ VertexFromExistenceTristateIndex(TristateIndexForExistence(v)) = v
        /\ \A p \in pairs :
              LET found == VerticesFromConnectionTristateIndex(
                               TristateIndexForConnection(p[1], p[2]))
              IN  /\ found.returns
                  /\ found.vertexS = p[1]
                  /\ found.vertexL = p[2]

\* C17: a freshly constructed OrientedGraph(n) has first invalid id n and no
\* live vertex, for every n; so has the graph of the run as long as no vertex
\* was created in it.
C17_FreshGraphIsEmpty ==
    /\ \A n \in 0..MaxVertices :
          LET fresh == OrientedGraph(n)
          IN  /\ GetFirstInvalidVertexID(fresh) = n
              /\ \A v \in 0..(n - 1) : ~VertexExists(fresh, v)
              /\ fresh = DigitsOf(NstateArray(Len(fresh)))
    /\ bog.exists = {} =>
          /\ og = OrientedGraph(GetFirstInvalidVertexID(og))
          /\ \A v \in Ids(og) : ~VertexExists(og, v)

\* the graph as constructed with the largest initial size, nothing created
C17_Witness ==
    /\ bog.exists = {}
    /\ og = OrientedGraph(MaxVertices)
    /\ Len(og) > 0

\* the ids below limit have in after the existence, tag and edges they have in
\* before
SameBelow(before, after, limit) ==
    \A a \in 0..(limit - 1) :
        /\ VertexExists(after, a) <=> VertexExists(before, a)
        /\ VertexExists(before, a) =>
              GetVertexType(after, a) = GetVertexType(before, a)
        /\ \A b \in (0..(limit - 1)) \ {a} :
              EdgeExists(after, a, b) <=> EdgeExists(before, a, b)

\* every id from first on is a hole without linkage to any id
HolesFrom(buf, first) ==
    \A a \in first..(GetFirstInvalidVertexID(buf) - 1) :
        /\ ~VertexExists(buf, a)
        /\ \A b \in Ids(buf) \ {a} : ~HasLinkage(buf, a, b)

\* C16: a capacity change of the graph from first invalid id m to n gives
\* first invalid id n and leaves existence, tags and edges among the ids below
\* min(m, n) as they were; after a shrink to n and a growth to any larger
\* capacity every id from n on is a hole without edges, also where the packed
\* words held the cut-off vertices and edges.
C16_CapacityChangeFrame ==
    \A n \in 0..MaxVertices :
        LET m == GetFirstInvalidVertexID(og)
            resized == SetCapacitySoVertexIsFirstInvalidID(og, n)
            packed == PackedResizeWithZeros(PackedOf(og),
                                            CapacityForFirstInvalidID(n))
        IN  /\ GetFirstInvalidVertexID(resized) = n
            /\ DigitsOf(packed) = resized
            /\ SameBelow(og, resized, Min(m, n))
            /\ HolesFrom(resized, m)
            /\ \A vertexL \in n..(MaxVertices - 1) :
                  LET regrown == SetCapacityForMaxValidVertexID(resized, vertexL)
                      packedRegrown ==
                          PackedResizeWithZeros(packed,
                              TristateIndexForExistence(vertexL + 1))
                  IN  /\ GetFirstInvalidVertexID(regrown) = vertexL + 1
                      /\ DigitsOf(packedRegrown) = regrown
                      /\ SameBelow(og, regrown, Min(m, n))
                      /\ HolesFrom(regrown, Min(m, n))

\* a graph in which the highest id exists and has an edge with a lower id,
\* both stored in a word that a shrink by one id does not free
C16_Witness ==
    LET top == GetFirstInvalidVertexID(og) - 1
    IN  /\ top >= 2
        /\ VertexExists(og, top)
        /\ \E b \in 0..(top - 1) : HasLinkage(og, top, b)
        /\ (TristateIndexForExistence(top) - 1) \div NstatesInPackedType
              = TristateIndexForExistence(top) \div NstatesInPackedType

\* C18: after vertices of any subset of the ids were created and edges were
\* added on pairs without linkage, the OrientedGraph and the reference graph
\* have the same live ids, the same answer of EdgeExists for every ordered
\* pair of them, and the same outgoing and incoming sets for every live id.
C18_AgreesWithReference ==
    /\ LiveIds(og) = bog.exists
    /\ \A a \in LiveIds(og) :
          /\ OutgoingEdgesForVertex(og, a) = {b \in bog.exists : <<a, b>> \in bog.E}
          /\ IncomingEdgesForVertex(og, a) = {b \in bog.exists : <<b, a>> \in bog.E}
          /\ \A b \in LiveIds(og) \ {a} :
                /\ EdgeExists(og, a, b) <=> <<a, b>> \in bog.E
                /\ ReverseEdgeExists(og, a, b) <=> <<b, a>> \in bog.E

\* vertices of both types exist, one edge points from a lower to a higher id
\* and one from a higher to a lower id
C18_Witness ==
    /\ \E a, b \in LiveIds(og) : GetVertexType(og, a) # GetVertexType(og, b)
    /\ \E e \in bog.E : e[1] < e[2] /\ EdgeExists(og, e[1], e[2])
    /\ \E e \in bog.E : e[1] > e[2] /\ EdgeExists(og, e[1], e[2])

\* C19: SetEdge(from, to) on a graph that holds the edge to -> from is a
\* contract violation: it halts (assert(false)), reports no added edge, and
\* leaves the connection cell and every other cell as they were; the edge
\* keeps its direction.
C19_ReverseEdgeRefused ==
    \A fromVertex \in LiveIds(og), toVertex \in LiveIds(og) :
        (fromVertex # toVertex /\ ReverseEdgeExists(og, fromVertex, toVertex)) =>
            LET set == OGSetEdge(og, fromVertex, toVertex)
            IN  /\ set.err # "none"
                /\ ~set.ret
                /\ set.buf = og
                /\ EdgeExists(set.buf, toVertex, fromVertex)
                /\ ~EdgeExists(set.buf, fromVertex, toVertex)

\* the graph holds an edge to a higher id and an edge to a lower id, so the
\* refused calls are of both orientations
C19_Witness ==
    /\ \E fromVertex, toVertex \in LiveIds(og) :
          /\ fromVertex < toVertex
          /\ ReverseEdgeExists(og, fromVertex, toVertex)
          /\ OGSetEdge(og, fromVertex, toVertex).err # "none"
    /\ \E fromVertex, toVertex \in LiveIds(og) :
          /\ fromVertex > toVertex
          /\ ReverseEdgeExists(og, fromVertex, toVertex)
          /\ OGSetEdge(og, fromVertex, toVertex).err # "none"

\* C20: in the user-tristate build, for every edge of the graph on which
\* SetTristateForConnection was called, GetTristateForConnection returns the
\* value of the last such call, whatever calls of SetEdge, ClearEdge, CanReach
\* and SetTristateForConnection on other edges came after it.
C20_UserTristateKept ==
    failed = "none" =>
        \A e \in DOMAIN written :
            /\ EdgeExists(data, e[1], e[2])
            /\ GetTristateForConnection(This, e[1], e[2]) = written[e]

\* an edge carries the written value 1, so its cell is among the outgoing
\* cells of its source row in m_canreach; the row is dirty and holds the
\* closure cell of a pair without edge, and a CanReach call on that pair
\* cleans the row and leaves the written value in place
C20_Witness ==
    /\ failed = "none"
    /\ \E e \in DOMAIN written :
          /\ written[e] = 1
          /\ GetVertexType(canreach, e[1]) = canreachMayHaveFalsePositives
          /\ \E toVertex \in LiveIds(data) \ {e[1], e[2]} :
                LET cleaned == CanReach(mode, This, e[1], toVertex).g
                IN  /\ ~HasLinkage(data, e[1], toVertex)
                    /\ EdgeExists(canreach, e[1], toVertex)
                    /\ cleaned.err = "none"
                    /\ cleaned.c # canreach
                    /\ GetTristateForConnection(cleaned, e[1], e[2]) = 1

\* C21: CanReach(a, b), and with it InsertionWouldCauseCycle, leaves the data
\* graph as it was: the same buffer, so the same live vertices, vertex tags
\* and edges, also when the call cleans Dirty rows.
C21_CanReachKeepsData ==
    failed = "none" =>
        \A p \in LivePairs(data) :
            LET r == CanReach(mode, This, p[1], p[2])
            IN  /\ r.g.d = data
                /\ LiveIds(r.g.d) = LiveIds(data)
                /\ Tags(r.g.d) = Tags(data)
                /\ Edges(r.g.d) = Edges(data)

\* a CanReach call on a Dirty vertex cleans rows: it returns with m_canreach
\* changed, in a graph that has edges
C21_Witness ==
    /\ failed = "none"
    /\ Edges(data) # {}
    /\ \E p \in LivePairs(data) :
          LET r == CanReach(mode, This, p[1], p[2])
          IN  /\ GetVertexType(canreach, p[1]) = canreachMayHaveFalsePositives
              /\ r.g.err = "none"
              /\ r.g.c # canreach
              /\ \E w \in LiveIds(data) \ {p[1]} :
                    /\ EdgeExists(r.g.c, p[1], w)
                    /\ ~HasLinkage(data, p[1], w)

\* C22: in every state reachable through the constructor, the four capacity
\* functions, CreateVertex, DestroyVertex, SetEdge and ClearEdge, the data
\* graph and m_canreach have the same first invalid id and the same live ids.
C22_SameIdSpace ==
    failed = "none" =>
        /\ GetFirstInvalidVertexID(data) = GetFirstInvalidVertexID(canreach)
        /\ LiveIds(data) = LiveIds(canreach)

C24_NoInternalAssertionFires == failed = "none"

\* C26: SetEdge, ClearEdge and CanReach of the DirectedAcyclicGraph leave the
\* vertex type (vertexTypeOne or vertexTypeTwo) of every vertex of the data
\* graph as it was, in every cache mode; cleanliness is written to the vertex
\* types of m_canreach only.
C26_DataTagsKept ==
    failed = "none" =>
        \A p \in LivePairs(data) :
            /\ Tags(SetEdge(mode, This, p[1], p[2]).g.d) = Tags(data)
            /\ Tags(ClearEdge(mode, This, p[1], p[2]).g.d) = Tags(data)
            /\ Tags(CanReach(mode, This, p[1], p[2]).g.d) = Tags(data)

\* C27: with CACHE_REACH_WITHOUT_LINK, when SetEdge(from, to) inserts a new
\* edge, every vertex a of IncomingReachForVertexIncludingSelf(from) that has
\* an edge (a, x) other than (from, to) with x in
\* OutgoingReachForVertexIncludingSelf(to) ends the call with the tristate of
\* (a, x) equal to isReachableWithoutEdge, and with the m_canreach vertex
\* type of a equal to canreachMayHaveFalsePositives if that of to was
\* canreachMayHaveFalsePositives when the propagation started.
C27_UpgradeMarksDirty ==
    (mode = "rwl" /\ failed = "none") =>
        \A p \in LivePairs(data) :
            LET cr == CanReach(mode, This, p[2], p[1])
                r == SetEdge(mode, This, p[1], p[2])
            IN  (/\ cr.g.err = "none"
                 /\ ~cr.ret
                 /\ ~EdgeExists(cr.g.d, p[1], p[2])
                 /\ r.ret = "true") =>
                    \A a \in IncomingReachForVertexIncludingSelf(cr.g, p[1]) :
                        \A x \in OutgoingReachForVertexIncludingSelf(cr.g, p[2]) :
                            (/\ <<a, x>> \in Edges(cr.g.d)
                             /\ <<a, x>> # p) =>
                                /\ GetTristateForConnection(r.g, a, x)
                                      = isReachableWithoutEdge
                                /\ GetVertexType(cr.g.c, p[2])
                                      = canreachMayHaveFalsePositives
                                   => GetVertexType(r.g.c, a)
                                      = canreachMayHaveFalsePositives

C29_CleanedRowIsExact ==
    failed = "none" =>
        \A p \in LivePairs(data) :
            (/\ ~HasLinkage(data, p[1], p[2])
             /\ GetVertexType(canreach, p[1]) = canreachMayHaveFalsePositives
             /\ EdgeExists(canreach, p[1], p[2])) =>
                LET r == CanReach(mode, This, p[1], p[2])
                IN  /\ r.g.err = "none"
                    /\ GetVertexType(r.g.c, p[1]) = canreachClean
                    /\ OutgoingReachForVertexIncludingSelf(r.g, p[1])
                          = {p[1]} \cup TrueReach(data, p[1])
                    /\ r.ret = (p[2] \in TrueReach(data, p[1]))

C25_CallsInTurnAnswerAsSerial ==
    (failed = "none" /\ ~overlapped) =>
        /\ \A t \in Threads :
              answer[t] = "false" =>
                  ~PathExists(Edges(data), call[t][1], call[t][2])
        /\ \E t \in Threads :
              LET u == CHOOSE x \in Threads : x # t
                  before == [d |-> data, c |-> canreachBefore, err |-> "none"]
                  one == CanReach(mode, before, call[t][1], call[t][2])
              IN  \/ answer[t] = "none" /\ answer[u] = "none"
                  \/ /\ answer[t] = (IF one.ret THEN "true" ELSE "false")
                     /\ \/ answer[u] = "none"
                        \/ answer[u] =
                             (IF CanReach(mode, one.g, call[u][1],
                                          call[u][2]).ret
                              THEN "true" ELSE "false")

\* both calls have returned and their reads and writes were interleaved: one
\* returned false for a pair that a directed path joins, and no order of the
\* two calls gives the two answers
C25_Witness ==
    /\ failed = "none"
    /\ overlapped
    /\ \A t \in Threads : at[t] = "done"
    /\ \E t \in Threads :
          /\ answer[t] = "false"
          /\ PathExists(Edges(data), call[t][1], call[t][2])
    /\ \A t \in Threads :
          LET u == CHOOSE x \in Threads : x # t
              before == [d |-> data, c |-> canreachBefore, err |-> "none"]
              one == CanReach(mode, before, call[t][1], call[t][2])
          IN  \/ answer[t] # (IF one.ret THEN "true" ELSE "false")
              \/ answer[u] # (IF CanReach(mode, one.g, call[u][1],
                                          call[u][2]).ret
                              THEN "true" ELSE "false")

C33_ShortCutKeepsReachability ==
    (mode = "rwl" /\ failed = "none") =>
        \A p \in Edges(data) :
            (/\ GetVertexType(canreach, p[1]) = canreachClean
             /\ GetTristateForConnection(This, p[1], p[2])
                   = isReachableWithoutEdge) =>
                LET r == ClearEdge(mode, This, p[1], p[2])
                IN  /\ r.g.err = "none"
                    /\ r.ret
                    /\ Tags(r.g.c) = Tags(canreach)
                    /\ PathExists(Edges(r.g.d), p[1], p[2])
                    /\ \A q \in LivePairs(data) :
                          CanReach(mode, r.g, q[1], q[2]).ret
                              = CanReach(mode, This, q[1], q[2]).ret

\* C34: destroying a vertex through a ...DontCompact member
\* (DestroyVertexDontCompact, DestroySourceVertexDontCompact,
\* DestroySinkVertexDontCompact, DestroyIsolatedVertexDontCompact) leaves
\* GetFirstInvalidVertexID as it was, in the data graph and in m_canreach.
C34_DontCompactKeepsCapacity ==
    failed = "none" =>
        \A vertex \in LiveIds(data) :
            \A h \in {DAGDestroyVertexDontCompact(This, vertex, TRUE),
                      DAGDestroyVertexDontCompact(This, vertex, FALSE),
                      DAGDestroySourceVertexDontCompact(This, vertex),
                      DAGDestroySinkVertexDontCompact(This, vertex),
                      DAGDestroyIsolatedVertexDontCompact(This, vertex)} :
                h.err = "none" =>
                    /\ GetFirstInvalidVertexID(h.d)
                          = GetFirstInvalidVertexID(data)
                    /\ GetFirstInvalidVertexID(h.c)
                          = GetFirstInvalidVertexID(canreach)

\* C35: whenever SetEdge(from, to) has passed the cycle check and inserted a
\* new edge, IncomingReachForVertexIncludingSelf(from) and
\* OutgoingReachForVertexIncludingSelf(to) have no vertex in common, false
\* positives of canreachMayHaveFalsePositives rows included, and the
\* assertion canreachFromVertex != toCanreachVertex does not fire.
C35_ConesAreDisjoint ==
    failed = "none" =>
        \A p \in LivePairs(data) :
            LET cr == CanReach(mode, This, p[2], p[1])
                s == OGSetEdge(cr.g.d, p[1], p[2])
                inserted == [cr.g EXCEPT !.d = s.buf]
            IN  (/\ cr.g.err = "none"
                 /\ ~cr.ret
                 /\ s.err = "none"
                 /\ s.ret) =>
                    /\ IncomingReachForVertexIncludingSelf(inserted, p[1])
                         \cap OutgoingReachForVertexIncludingSelf(inserted, p[2])
                         = {}
                    /\ SetEdge(mode, This, p[1], p[2]).g.err
                         # "SetEdge: canreachFromVertex != toCanreachVertex"

\* C36: while SetEdge(from, to) propagates, for every a of
\* IncomingReachForVertexIncludingSelf(from) and b of
\* OutgoingReachForVertexIncludingSelf(to) with an edge b -> a in the data
\* graph, b is canreachMayHaveFalsePositives, the m_canreach cell of the pair
\* is after the call what it was before, and nothing is called on the pair
\* that asserts that it has no edge (ClearReachEdge, SetReachEdge).
C36_ReverseEdgeLeftAlone ==
    failed = "none" =>
        \A p \in LivePairs(data) :
            LET cr == CanReach(mode, This, p[2], p[1])
                s == OGSetEdge(cr.g.d, p[1], p[2])
                inserted == [cr.g EXCEPT !.d = s.buf]
                r == SetEdge(mode, This, p[1], p[2])
            IN  (/\ cr.g.err = "none"
                 /\ ~cr.ret
                 /\ s.err = "none"
                 /\ s.ret) =>
                    \A a \in IncomingReachForVertexIncludingSelf(inserted, p[1]) :
                        \A b \in OutgoingReachForVertexIncludingSelf(inserted, p[2]) :
                            (a # b /\ EdgeExists(inserted.d, b, a)) =>
                                /\ GetVertexType(inserted.c, b)
                                      = canreachMayHaveFalsePositives
                                /\ r.g.err = "none"
                                /\ Digit(r.g.c, TristateIndexForConnection(
                                                    Min(a, b), Max(a, b)))
                                      = Digit(cr.g.c, TristateIndexForConnection(
                                                    Min(a, b), Max(a, b)))

\* C37: SetEdge never turns a canreachMayHaveFalsePositives vertex
\* canreachClean once its cycle check is done (the check may clean rows): a
\* vertex a that gains a closure cell a -> b in the propagation ends
\* canreachClean if from, to and a were all canreachClean when the
\* propagation started, and canreachMayHaveFalsePositives otherwise.
C37_SetEdgeNeverCleans ==
    failed = "none" =>
        \A p \in LivePairs(data) :
            LET cr == CanReach(mode, This, p[2], p[1])
                r == SetEdge(mode, This, p[1], p[2])
            IN  (cr.g.err = "none" /\ r.ret = "true") =>
                  \A a \in LiveIds(data) :
                      /\ GetVertexType(cr.g.c, a) = canreachMayHaveFalsePositives
                           => GetVertexType(r.g.c, a)
                                = canreachMayHaveFalsePositives
                      /\ (\E b \in LiveIds(data) \ {a} :
                              /\ ~HasLinkage(r.g.d, a, b)
                              /\ ~EdgeExists(cr.g.c, a, b)
                              /\ EdgeExists(r.g.c, a, b))
                           => (GetVertexType(r.g.c, a) = canreachClean
                                <=> /\ GetVertexType(cr.g.c, p[1]) = canreachClean
                                    /\ GetVertexType(cr.g.c, p[2]) = canreachClean
                                    /\ GetVertexType(cr.g.c, a) = canreachClean)

\* SetEdge gives a closure cell to a vertex that was canreachClean, `to' is
\* canreachMayHaveFalsePositives, and the vertex ends
\* canreachMayHaveFalsePositives
C37_Witness ==
    /\ failed = "none"
    /\ \E p \in LivePairs(data) :
          /\ SetEdge(mode, This, p[1], p[2]).ret = "true"
          /\ GetVertexType(CanReach(mode, This, p[2], p[1]).g.c, p[2])
                = canreachMayHaveFalsePositives
          /\ \E a \in LiveIds(data), b \in LiveIds(data) :
                /\ a # b
                /\ GetVertexType(canreach, a) = canreachClean
                /\ ~HasLinkage(SetEdge(mode, This, p[1], p[2]).g.d, a, b)
                /\ ~EdgeExists(canreach, a, b)
                /\ EdgeExists(SetEdge(mode, This, p[1], p[2]).g.c, a, b)
                /\ GetVertexType(SetEdge(mode, This, p[1], p[2]).g.c, a)
                      = canreachMayHaveFalsePositives

\* C38: CanReach(a, b) changes m_canreach only when a and b are joined by no
\* edge of the data graph, a is canreachMayHaveFalsePositives and the cell
\* a -> b is set; in every other case (an edge between the two, a
\* canreachClean row, or a canreachMayHaveFalsePositives row without the
\* cell) the whole object is after the call what it was before.
C38_CanReachChangesOnlyToClean ==
    failed = "none" =>
        \A p \in LivePairs(data) :
            ~(/\ ~HasLinkage(data, p[1], p[2])
              /\ GetVertexType(canreach, p[1]) = canreachMayHaveFalsePositives
              /\ EdgeExists(canreach, p[1], p[2])) =>
                CanReach(mode, This, p[1], p[2]).g = This

\* in one state CanReach changes m_canreach for one pair, and leaves it for
\* a pair whose first vertex is canreachMayHaveFalsePositives and has no
\* cell to the second
C38_Witness ==
    /\ failed = "none"
    /\ \E p \in LivePairs(data) :
          /\ CanReach(mode, This, p[1], p[2]).g.err = "none"
          /\ CanReach(mode, This, p[1], p[2]).g.c # canreach
    /\ \E p \in LivePairs(data) :
          /\ ~HasLinkage(data, p[1], p[2])
          /\ GetVertexType(canreach, p[1]) = canreachMayHaveFalsePositives
          /\ ~EdgeExists(canreach, p[1], p[2])
          /\ CanReach(mode, This, p[1], p[2]).g = This

\* C39: the power table has an entry radix^i for every i from 0 to the
\* number of digits of a word inclusive, so that every index looked up while
\* a digit of the array is read or written, digit + 1 for the most
\* significant digit of a word included, lies inside m_table.
C39_LookupsInsideTable ==
    /\ DOMAIN m_table = 0..NstatesInPackedType
    /\ \A index \in DOMAIN m_table : m_table[index] = Pow(radix, index)
    /\ \A pos \in 0..(nv.m_max - 1) :
          {pos % NstatesInPackedType, (pos % NstatesInPackedType) + 1}
              \subseteq DOMAIN m_table

====
